---------------------------- MODULE Spec2Model ----------------------------
(***************************************************************************)
(* A model of four parts of n3n:                                           *)
(*   - the management connection slots (libs/connslot/connslot.c),         *)
(*   - the replay protected time stamps (src/n2n.c, time_stamp and         *)
(*     time_stamp_verify_and_update),                                      *)
(*   - the supernode list (src/n2n.c, add_sn_to_list_by_mac_or_sock),      *)
(*   - the resolver thread (src/n2n.c, supernode2sock, resolve_thread,     *)
(*     resolve_create_thread, resolve_cancel_thread and resolve_check).    *)
(* Each part has its own specification; the variables of the other parts   *)
(* stay at their initial value.                                            *)
(***************************************************************************)
EXTENDS Integers, Sequences, FiniteSets, TLC

VARIABLES
    slots,          \* slots_t: nr_slots, timeout, nr_open, listen[], conn[]
    kernel,         \* the open descriptors of the process: fd -> socket
    env,            \* what the outside does: the requests clients send,
                    \* the replies the application stages, the clock's values
    readers,        \* fd_set handed to slots_fdset / slots_fdset_loop
    writers,        \* fd_set handed to slots_fdset / slots_fdset_loop
    pc,             \* "idle", or "polled" between slots_fdset and the loop
    now,            \* time(NULL)
    aborted,        \* abort() was called
    last_call,      \* the last library call that returned, with its result
    clock,          \* gettimeofday(): the time of day, and the values it takes
    previously_issued_time_stamp,
    previous_stamp, \* the caller's *previous_stamp
    ts_call,        \* the last time stamp call that returned
    sn_list,        \* the supernode list, in HASH_ITER order
    next_peer,      \* the next address peer_info_malloc() hands out
    sn_call,        \* the last add_sn_to_list_by_mac_or_sock call
    mask_call,      \* the last bitlen2mask / mask2bitlen call
    param,          \* n2n_resolve_parameter_t: list, changed, request,
                    \* last_resolved, last_checked, check_interval, access
    param_freed,    \* free(param) was called
    supernodes,     \* the n2n_sock_t of each supernode, *entry->org_sock
    worker,         \* resolve_thread: its position and its locals
    reactor,        \* the thread that creates, checks and cancels
    rtime,          \* time(NULL) as the resolver's threads read it
    rs_call         \* the last resolver step, with what it found

slotVars == <<slots, kernel, env, readers, writers, pc, now, aborted, last_call>>
tsVars   == <<clock, previously_issued_time_stamp, previous_stamp, ts_call>>
snVars   == <<sn_list, next_peer, sn_call>>
maskVars == <<mask_call>>
rsVars   == <<param, param_freed, supernodes, worker, reactor, rtime, rs_call>>
vars     == <<slotVars, tsVars, snVars, maskVars, rsVars>>

Min(a, b) == IF a < b THEN a ELSE b
Max(a, b) == IF a > b THEN a ELSE b

(***************************************************************************)
(* Bounds of the model.                                                    *)
(***************************************************************************)
\* slots_malloc(nr_slots, ...): the size of the pool in SpecPool
PoolSize == 2
\* slots_malloc(nr_slots, ...): the size of the pool in Spec
ApiSlots == 1
\* slots_malloc(..., req_max, ...): the largest request buffer
RequestMax == 64
\* how far above nr_slots the model lets nr_open drift
MaxDrift == 1
\* the most bytes one read() delivers in SpecFraming
MaxChunk == 8
\* the highest counter of a stamp in SpecStamp
MaxBurst == 258
\* the highest counter of a stamp in SpecVerify
VerifyBurst == 4
\* the number of sockets supernodes are added with
MaxSocks == 2
\* the number of MAC addresses that are not null
MaxMacs == 2
\* the supernodes that come with a name
MaxEntries == 3
\* the supernodes with a name of SpecResolveFair
FairEntries == 2
\* the values time(NULL) takes while the resolver runs, in seconds
ResolveTimes == {1000, 1031, 1332}

(***************************************************************************)
(* Unsigned 32 bit values, held as <<high 16 bits, low 16 bits>>.          *)
(***************************************************************************)
Two16 == 65536

U32(n) == <<(n \div Two16) % Two16, n % Two16>>

U32Zero == <<0, 0>>

U32Add(a, b) ==
    LET lo == a[2] + b[2]
        hi == a[1] + b[1] + (lo \div Two16)
    IN  <<hi % Two16, lo % Two16>>

U32Neg(a) ==
    IF a = U32Zero THEN U32Zero
    ELSE IF a[2] = 0 THEN <<Two16 - a[1], 0>>
    ELSE <<Two16 - 1 - a[1], Two16 - a[2]>>

\* n < a, for a small non negative n
IntLtU32(n, a) == a[1] > 0 \/ n < a[2]

(***************************************************************************)
(* Bytes and byte strings.                                                 *)
(***************************************************************************)
CR == "CR"
LF == "LF"
SP == "SP"

EndOfHeader == <<CR, LF, CR, LF>>

ContentLength ==
    <<"C", "o", "n", "t", "e", "n", "t", "-", "L", "e", "n", "g", "t", "h", ":">>

DigitVal ==
    "0" :> 0 @@ "1" :> 1 @@ "2" :> 2 @@ "3" :> 3 @@ "4" :> 4 @@
    "5" :> 5 @@ "6" :> 6 @@ "7" :> 7 @@ "8" :> 8 @@ "9" :> 9

IsDigit(b) == b \in DOMAIN DigitVal

IsSpace(b) == b \in {SP, CR, LF, "HT", "VT", "FF"}

\* memmem(haystack, haystack_len, needle, needle_len): the offset of the
\* first match, -1 for NULL
memmem(haystack, haystack_len, needle) ==
    LET n == Len(needle)
        hits == {p \in 0..(haystack_len - n) :
                     \A k \in 1..n : haystack[p + k] = needle[k]}
    IN  IF n = 0 \/ haystack_len = 0 \/ hits = {} THEN -1
        ELSE CHOOSE p \in hits : \A q \in hits : p <= q

\* unsigned long (64 bit), four 16 bit limbs, low limb first
RECURSIVE StrtoulDigits(_, _, _, _)
StrtoulDigits(s, i, acc, overflow) ==
    IF i > Len(s) \/ ~IsDigit(s[i]) THEN [acc |-> acc, overflow |-> overflow]
    ELSE LET t0 == acc[1] * 10 + DigitVal[s[i]]
             t1 == acc[2] * 10 + (t0 \div Two16)
             t2 == acc[3] * 10 + (t1 \div Two16)
             t3 == acc[4] * 10 + (t2 \div Two16)
         IN  StrtoulDigits(s, i + 1,
                           <<t0 % Two16, t1 % Two16, t2 % Two16, t3 % Two16>>,
                           overflow \/ t3 >= Two16)

RECURSIVE SkipSpace(_, _)
SkipSpace(s, i) ==
    IF i <= Len(s) /\ IsSpace(s[i]) THEN SkipSpace(s, i + 1) ELSE i

\* (unsigned int)strtoul(s, NULL, 10)
strtoul_uint(s) ==
    LET i    == SkipSpace(s, 1)
        neg  == i <= Len(s) /\ s[i] = "-"
        j    == IF i <= Len(s) /\ s[i] \in {"-", "+"} THEN i + 1 ELSE i
        r    == StrtoulDigits(s, j, <<0, 0, 0, 0>>, FALSE)
        low  == <<r.acc[2], r.acc[1]>>
    IN  IF r.overflow THEN <<Two16 - 1, Two16 - 1>>
        ELSE IF neg THEN U32Neg(low)
        ELSE low

(***************************************************************************)
(* strbuf_t: the bytes written so far (wr_pos is their number), rd_pos,    *)
(* the capacity and the largest capacity.                                  *)
(***************************************************************************)
sb_malloc(size, size_max) ==
    [str |-> <<>>, rd_pos |-> U32Zero, capacity |-> size, capacity_max |-> size_max]

sb_len(sb) == Len(sb.str)

sb_avail(sb) == sb.capacity - Len(sb.str)

sb_zero(sb) == [sb EXCEPT !.str = <<>>, !.rd_pos = U32Zero]

\* refuses (NULL) beyond the maximum capacity
sb_realloc_refused(sb, size) == size > sb.capacity_max

sb_realloc(sb, size) == [sb EXCEPT !.capacity = size]

(***************************************************************************)
(* conn_t                                                                  *)
(***************************************************************************)
CONN_EMPTY   == "CONN_EMPTY"
CONN_READING == "CONN_READING"
CONN_READY   == "CONN_READY"
CONN_SENDING == "CONN_SENDING"
CONN_CLOSED  == "CONN_CLOSED"
CONN_ERROR   == "CONN_ERROR"

NoFd == -1

NullReply == [null |-> TRUE, str |-> <<>>]

\* conn_zero without line 65: the state is left as it was
conn_zero_keeps_state(c) ==
    [c EXCEPT !.fd = NoFd,
              !.reply = NullReply,
              !.reply_sendpos = 0,
              !.activity = 0,
              !.request = sb_zero(c.request),
              !.reply_header = sb_zero(c.reply_header)]

conn_zero(c) ==
    [c EXCEPT !.fd = NoFd,
              !.state = CONN_EMPTY,
              !.reply = NullReply,
              !.reply_sendpos = 0,
              !.activity = 0,
              !.request = sb_zero(c.request),
              !.reply_header = sb_zero(c.reply_header)]

conn_init(request_max, reply_header_max) ==
    conn_zero([fd |-> NoFd, state |-> CONN_EMPTY, reply |-> NullReply,
               reply_sendpos |-> 0, activity |-> 0,
               request |-> sb_malloc(48, request_max),
               reply_header |-> sb_malloc(48, reply_header_max)])

\* the HTTP part of conn_read: the request buffer holds at least 4 bytes
conn_read_http(c) ==
    LET str == c.request.str
        len == sb_len(c.request)
        cached == c.request.rd_pos
        p == memmem(str, len, EndOfHeader)
        body_pos == p + 4
        q == memmem(str, body_pos, ContentLength)
        content_length == strtoul_uint(SubSeq(str, q + 16, len))
        expected_length ==
            IF cached = U32Zero THEN U32Add(U32(body_pos), content_length)
            ELSE cached
        c1 == [c EXCEPT !.request.rd_pos = expected_length]
    IN  IF cached = U32Zero /\ p = -1 THEN c
        ELSE IF cached = U32Zero /\ q = -1 THEN [c EXCEPT !.state = CONN_READY]
        ELSE IF IntLtU32(len, expected_length) THEN c1
        ELSE [c1 EXCEPT !.state = CONN_READY, !.request.rd_pos = U32Zero]

\* the bytes sb_read() can take: the room of the request buffer after
\* conn_read has tried to grow a full buffer by 16
ReadRoom(c) ==
    IF sb_avail(c.request) > 0 THEN sb_avail(c.request)
    ELSE IF sb_realloc_refused(c.request, c.request.capacity + 16) THEN 0
    ELSE c.request.capacity + 16 - sb_len(c.request)

\* conn_read with line 125 testing <= 4: a request of four bytes is not
\* looked at
conn_read_needs_five(c, rd, t) ==
    LET c1 == [c EXCEPT !.state = CONN_READING]
        full == sb_avail(c1.request) = 0
        refused == full /\ sb_realloc_refused(c1.request, c1.request.capacity + 16)
        c2 == IF full
              THEN [c1 EXCEPT !.request = sb_realloc(@, c1.request.capacity + 16)]
              ELSE c1
        c3 == [c2 EXCEPT !.request.str = @ \o rd.data, !.activity = t]
    IN  IF refused THEN [conn |-> c1, aborted |-> TRUE]
        ELSE IF rd.size = 0 THEN
            [conn |-> [c2 EXCEPT !.state = CONN_CLOSED], aborted |-> FALSE]
        ELSE IF rd.size = -1 THEN
            [conn |-> [c2 EXCEPT !.state =
                          IF rd.errno = "EWOULDBLOCK" THEN CONN_EMPTY ELSE CONN_ERROR],
             aborted |-> FALSE]
        ELSE IF sb_len(c3.request) <= 4 THEN [conn |-> c3, aborted |-> FALSE]
        ELSE [conn |-> conn_read_http(c3), aborted |-> FALSE]

\* conn_read with line 115 left out: a read that would block leaves the
\* slot in CONN_READING
conn_read_keeps_reading(c, rd, t) ==
    LET c1 == [c EXCEPT !.state = CONN_READING]
        full == sb_avail(c1.request) = 0
        refused == full /\ sb_realloc_refused(c1.request, c1.request.capacity + 16)
        c2 == IF full
              THEN [c1 EXCEPT !.request = sb_realloc(@, c1.request.capacity + 16)]
              ELSE c1
        c3 == [c2 EXCEPT !.request.str = @ \o rd.data, !.activity = t]
    IN  IF refused THEN [conn |-> c1, aborted |-> TRUE]
        ELSE IF rd.size = 0 THEN
            [conn |-> [c2 EXCEPT !.state = CONN_CLOSED], aborted |-> FALSE]
        ELSE IF rd.size = -1 THEN
            [conn |-> [c2 EXCEPT !.state =
                          IF rd.errno = "EWOULDBLOCK" THEN CONN_READING ELSE CONN_ERROR],
             aborted |-> FALSE]
        ELSE IF sb_len(c3.request) < 4 THEN [conn |-> c3, aborted |-> FALSE]
        ELSE [conn |-> conn_read_http(c3), aborted |-> FALSE]

\* conn_read(conn); rd is what read() did: [size |-> 0], [size |-> -1,
\* errno |-> ...] or [size |-> n, data |-> the n bytes]; t is time(NULL).
\* The result is the connection and whether abort() was called.
conn_read(c, rd, t) ==
    LET c1 == [c EXCEPT !.state = CONN_READING]
        full == sb_avail(c1.request) = 0
        refused == full /\ sb_realloc_refused(c1.request, c1.request.capacity + 16)
        c2 == IF full
              THEN [c1 EXCEPT !.request = sb_realloc(@, c1.request.capacity + 16)]
              ELSE c1
        c3 == [c2 EXCEPT !.request.str = @ \o rd.data, !.activity = t]
    IN  IF refused THEN [conn |-> c1, aborted |-> TRUE]
        ELSE IF rd.size = 0 THEN
            [conn |-> [c2 EXCEPT !.state = CONN_CLOSED], aborted |-> FALSE]
        ELSE IF rd.size = -1 THEN
            [conn |-> [c2 EXCEPT !.state =
                          IF rd.errno = "EWOULDBLOCK" THEN CONN_EMPTY ELSE CONN_ERROR],
             aborted |-> FALSE]
        ELSE IF sb_len(c3.request) < 4 THEN [conn |-> c3, aborted |-> FALSE]
        ELSE [conn |-> conn_read_http(c3), aborted |-> FALSE]

\* the two iovecs with the body always taken from its first byte
conn_write_vecs_restarts_body(c) ==
    LET hlen == sb_len(c.reply_header)
    IN  (IF c.reply_sendpos < hlen
         THEN SubSeq(c.reply_header.str, c.reply_sendpos + 1, hlen)
         ELSE <<>>)
        \o
        (IF c.reply.null THEN <<>> ELSE c.reply.str)

\* the bytes the two iovecs of conn_write cover
conn_write_vecs(c) ==
    LET hlen == sb_len(c.reply_header)
        reply_pos == IF c.reply_sendpos < hlen THEN 0 ELSE c.reply_sendpos - hlen
    IN  (IF c.reply_sendpos < hlen
         THEN SubSeq(c.reply_header.str, c.reply_sendpos + 1, hlen)
         ELSE <<>>)
        \o
        (IF c.reply.null THEN <<>>
         ELSE SubSeq(c.reply.str, reply_pos + 1, Len(c.reply.str)))

\* conn_write(conn); sent is what writev() returned, t is time(NULL)
conn_write(c, sent, t) ==
    LET c1 == [c EXCEPT !.state = CONN_SENDING]
        end_pos == sb_len(c.reply_header)
                   + (IF c.reply.null THEN 0 ELSE Len(c.reply.str))
        pos == c.reply_sendpos + sent
        \* reply_sendpos and end_pos are compared as unsigned values: a
        \* position below zero is the largest one
        done == pos < 0 \/ pos >= end_pos
    IN  IF c.fd = NoFd THEN c1
        ELSE IF done THEN
            [c1 EXCEPT !.state = CONN_EMPTY,
                       !.reply_sendpos = 0,
                       !.reply_header = sb_zero(@),
                       !.request = sb_zero(@),
                       !.activity = t]
        ELSE [c1 EXCEPT !.reply_sendpos = pos, !.activity = t]

conn_iswriter(c) == c.state = CONN_SENDING

conn_close(c) == conn_zero(c)


(***************************************************************************)
(* The descriptors of the process.  socket() and accept() hand out the     *)
(* lowest free descriptor; 0, 1 and 2 are the standard streams.            *)
(***************************************************************************)
StdStreams == [fd \in 0..2 |-> [kind |-> "std", rx |-> <<>>]]

LowestFreeFd(k) ==
    CHOOSE fd \in 0..Cardinality(DOMAIN k) :
        fd \notin DOMAIN k /\ \A g \in 0..(fd - 1) : g \in DOMAIN k

KOpen(k, fd, sock) == (fd :> sock) @@ k

\* close(fd); closing -1 or a closed descriptor changes nothing
closesocket(k, fd) == [g \in DOMAIN k \ {fd} |-> k[g]]

(***************************************************************************)
(* slots_t                                                                 *)
(***************************************************************************)
SLOTS_LISTEN == 2

SlotIds(s) == 0..(s.nr_slots - 1)

OpenSlots(s) == {i \in SlotIds(s) : s.conn[i].fd # NoFd}

slots_malloc(nr_slots, req_max, reply_header_max) ==
    [nr_slots |-> nr_slots,
     timeout  |-> 60,
     nr_open  |-> 0,
     listen   |-> [i \in 0..(SLOTS_LISTEN - 1) |-> NoFd],
     conn     |-> [i \in 0..(nr_slots - 1) |-> conn_init(req_max, reply_header_max)]]

\* the first listen slot that holds -1; -1 when all are taken
slots_listen_find_empty(s) ==
    LET free == {i \in DOMAIN s.listen : s.listen[i] = NoFd}
    IN  IF free = {} THEN -1 ELSE CHOOSE i \in free : \A j \in free : i <= j

\* slots_fdset without the test of line 532: the listeners are always added
slots_fdset_always_listens(s, rd, wr) ==
    LET open == OpenSlots(s)
        nr_open == Cardinality(open)
        connfds == {s.conn[i].fd : i \in open}
        listening == {s.listen[i] : i \in DOMAIN s.listen} \ {NoFd}
        all == connfds \cup listening
    IN  [slots   |-> [s EXCEPT !.nr_open = nr_open],
         readers |-> rd \cup all,
         writers |-> wr \cup {s.conn[i].fd : i \in {j \in open : conn_iswriter(s.conn[j])}},
         fdmax   |-> IF all = {} THEN 0
                     ELSE Max(0, CHOOSE m \in all : \A f \in all : f <= m)]

\* slots_fdset(slots, readers, writers): both sets as they are left, the
\* pool with nr_open counted, and the largest descriptor
slots_fdset(s, rd, wr) ==
    LET open == OpenSlots(s)
        nr_open == Cardinality(open)
        connfds == {s.conn[i].fd : i \in open}
        listening == IF s.listen[0] # 0 /\ nr_open < s.nr_slots
                     THEN {s.listen[i] : i \in DOMAIN s.listen} \ {NoFd}
                     ELSE {}
        all == connfds \cup listening
    IN  [slots   |-> [s EXCEPT !.nr_open = nr_open],
         readers |-> rd \cup all,
         writers |-> wr \cup {s.conn[i].fd : i \in {j \in open : conn_iswriter(s.conn[j])}},
         fdmax   |-> IF all = {} THEN 0
                     ELSE Max(0, CHOOSE m \in all : \A f \in all : f <= m)]

\* the slot slots_accept picks: the first with fd == -1, nr_slots if none
FirstFreeSlot(s) ==
    LET free == SlotIds(s) \ OpenSlots(s)
    IN  IF free = {} THEN s.nr_slots ELSE CHOOSE i \in free : \A j \in free : i <= j

\* slots_accept(slots, listen_nr); acc is what accept() did: [ok |-> FALSE]
\* or [ok |-> TRUE, rx |-> the bytes the client is going to send]
slots_accept(s, k, acc, t) ==
    LET i == FirstFreeSlot(s)
        client == LowestFreeFd(k)
    IN  IF i = s.nr_slots THEN [slots |-> s, kernel |-> k, ret |-> -2]
        ELSE IF ~acc.ok THEN [slots |-> s, kernel |-> k, ret |-> -1]
        ELSE [slots  |-> [s EXCEPT !.nr_open = @ + 1,
                                   !.conn[i].activity = t,
                                   !.conn[i].fd = client],
              kernel |-> KOpen(k, client, [kind |-> "conn", rx |-> acc.rx]),
              ret    |-> i]

\* slots_closeidle(slots)
RECURSIVE closeidle_from(_, _, _, _, _)
closeidle_from(i, s, k, nr_closed, t) ==
    IF i = s.nr_slots THEN
        [slots  |-> [s EXCEPT !.nr_open = Max(0, @ - nr_closed)],
         kernel |-> k,
         ret    |-> nr_closed]
    ELSE IF s.conn[i].fd # NoFd /\ t - s.conn[i].activity > s.timeout THEN
        closeidle_from(i + 1,
                       [s EXCEPT !.conn[i] = conn_close(@)],
                       closesocket(k, s.conn[i].fd),
                       nr_closed + 1, t)
    ELSE closeidle_from(i + 1, s, k, nr_closed, t)

\* slots_closeidle with line 590 testing >=: a slot is closed as soon as it
\* has been idle for the timeout
slots_closeidle_at_timeout(s, k, t) ==
    LET idle == {i \in SlotIds(s) :
                    s.conn[i].fd # NoFd /\ t - s.conn[i].activity >= s.timeout}
        fds  == {s.conn[i].fd : i \in idle}
    IN  [slots  |-> [s EXCEPT
                        !.conn = [i \in DOMAIN s.conn |->
                                     IF i \in idle THEN conn_close(s.conn[i])
                                     ELSE s.conn[i]],
                        !.nr_open = Max(0, @ - Cardinality(idle))],
         kernel |-> [g \in DOMAIN k \ fds |-> k[g]],
         ret    |-> Cardinality(idle)]

slots_closeidle(s, k, t) == closeidle_from(0, s, k, 0, t)

(***************************************************************************)
(* What the sockets can do to a call.                                      *)
(***************************************************************************)
\* read(fd) on a connection with `room` bytes of buffer left: the bytes
\* arrive in pieces of the sizes e.chunks, and e.faults are the ways in
\* which a read can fail
ReadOutcomes(k, fd, room, e) ==
    IF fd \notin DOMAIN k THEN {[size |-> -1, errno |-> "EBADF"]}
    ELSE {[size |-> -1, errno |-> x] : x \in e.faults \ {"FIN"}}
         \cup (IF k[fd].rx = <<>> /\ "FIN" \in e.faults THEN {[size |-> 0]} ELSE {})
         \cup {[size |-> n, data |-> SubSeq(k[fd].rx, 1, n)] :
                   n \in e.chunks \cap (1..Min(room, Len(k[fd].rx)))}

\* the kernel after a read
AfterRead(k, fd, rd) ==
    IF rd.size > 0
    THEN [k EXCEPT ![fd].rx = SubSeq(@, rd.size + 1, Len(@))]
    ELSE k

\* writev(fd) of n bytes: -1 (would block, or an error) or the bytes taken
WriteOutcomes(n) == {-1} \cup (IF n = 0 THEN {0} ELSE 1..n)

\* the bytes a writev() that returns sent takes from the two iovecs
Written(c, sent) ==
    IF sent < 1 THEN <<>> ELSE SubSeq(conn_write_vecs(c), 1, sent)

\* accept(): fails, or a client that is going to send one of reqs
AcceptOutcomes(rq) == {[ok |-> FALSE]} \cup {[ok |-> TRUE, rx |-> r] : r \in rq}


(***************************************************************************)
(* slots_fdset_loop(slots, readers, writers).  A world is the pool, the    *)
(* kernel, the readers set, whether abort() was called and the slots that  *)
(* conn_read and conn_write were called on; the loop yields the set of     *)
(* worlds it can end in, each with the value returned.                     *)
(***************************************************************************)
\* the first loop: the listeners at and after listen_nr
RECURSIVE loop_accept(_, _, _, _)
loop_accept(listen_nr, w, rq, t) ==
    IF listen_nr = SLOTS_LISTEN THEN {[w EXCEPT !.ret = 0]}
    ELSE IF w.slots.listen[listen_nr] = NoFd
            \/ w.slots.listen[listen_nr] \notin w.readers
    THEN loop_accept(listen_nr + 1, w, rq, t)
    ELSE UNION {
        LET a == slots_accept(w.slots, w.kernel, acc, t)
        IN  IF a.ret \in {-1, -2}
            THEN {[w EXCEPT !.slots = a.slots, !.kernel = a.kernel,
                            !.ret = a.ret, !.returned = TRUE]}
            ELSE loop_accept(listen_nr + 1,
                             [w EXCEPT !.slots = a.slots, !.kernel = a.kernel,
                                       !.readers = @ \cup {a.slots.conn[a.ret].fd}],
                             rq, t)
        : acc \in AcceptOutcomes(rq)}

\* slot i after the read of the second loop, if its fd is in readers
loop_read(w, i, e, t) ==
    LET c == w.slots.conn[i]
    IN  IF c.fd \notin w.readers THEN {w}
        ELSE {LET r == conn_read(c, rd, t)
              IN  [w EXCEPT !.slots.conn[i] = r.conn,
                            !.kernel = AfterRead(@, c.fd, rd),
                            !.aborted = r.aborted,
                            !.reads = Append(@, i)]
              : rd \in ReadOutcomes(w.kernel, c.fd, ReadRoom(c), e)}

\* slot i after the switch and the write of the second loop
loop_write(w, i, wr, t) ==
    LET c == w.slots.conn[i]
    IN  IF c.state \in {CONN_ERROR, CONN_CLOSED} THEN
            {[w EXCEPT !.slots.nr_open = @ - 1,
                       !.slots.conn[i] = conn_close(c),
                       !.kernel = closesocket(@, c.fd)]}
        ELSE IF c.fd \notin wr THEN
            {[w EXCEPT !.ret = @ + (IF c.state = CONN_READY THEN 1 ELSE 0)]}
        ELSE {[w EXCEPT !.ret = @ + (IF c.state = CONN_READY THEN 1 ELSE 0),
                        !.slots.conn[i] = conn_write(c, sent, t),
                        !.writes = Append(@, i)]
              : sent \in WriteOutcomes(Len(conn_write_vecs(c)))}

\* the second loop: the slots at and after i; nr_open is the local count
RECURSIVE loop_slots(_, _, _, _, _, _)
loop_slots(i, w, wr, nr_open, e, t) ==
    IF w.aborted THEN {w}
    ELSE IF i = w.slots.nr_slots THEN {[w EXCEPT !.slots.nr_open = nr_open]}
    ELSE IF w.slots.conn[i].fd = NoFd THEN loop_slots(i + 1, w, wr, nr_open, e, t)
    ELSE UNION {
            UNION {loop_slots(i + 1, w2, wr, nr_open + 1, e, t)
                   : w2 \in IF w1.aborted THEN {w1} ELSE loop_write(w1, i, wr, t)}
         : w1 \in loop_read(w, i, e, t)}

slots_fdset_loop(s, k, rd, wr, e, t) ==
    UNION {IF w.returned THEN {w} ELSE loop_slots(0, w, wr, 0, e, t)
           : w \in loop_accept(0, [slots |-> s, kernel |-> k, readers |-> rd,
                                  aborted |-> FALSE, ret |-> 0,
                                  returned |-> FALSE,
                                  reads |-> <<>>, writes |-> <<>>],
                               e.reqs, t)}


(***************************************************************************)
(* The connection slots: one action per library call.  The library is      *)
(* called from one thread; between slots_fdset and slots_fdset_loop the    *)
(* caller only waits in select().                                          *)
(***************************************************************************)
Returned(op, r) == [op |-> op, ret |-> r]

\* a call whose result the model does not follow
Called(op) == [op |-> op]

Running == pc = "idle" /\ ~aborted

\* slots_listen_tcp / slots_listen_unix, the socket calls succeeding
SlotsListen ==
    /\ UNCHANGED <<tsVars, snVars, rsVars, maskVars>>
    /\ Running
    /\ Cardinality({i \in DOMAIN slots.listen : slots.listen[i] # NoFd}) < env.listeners
    /\ LET listen_nr == slots_listen_find_empty(slots)
           server == LowestFreeFd(kernel)
       IN  IF listen_nr < 0
           THEN /\ last_call' = Called("slots_listen")
                /\ UNCHANGED <<slots, kernel>>
           ELSE /\ slots' = [slots EXCEPT !.listen[listen_nr] = server]
                /\ kernel' = KOpen(kernel, server, [kind |-> "listen", rx |-> <<>>])
                /\ last_call' = Called("slots_listen")
    /\ UNCHANGED <<env, readers, writers, pc, now, aborted>>

\* slots_fdset on two empty sets
SlotsFdset ==
    /\ UNCHANGED <<tsVars, snVars, rsVars, maskVars>>
    /\ Running
    /\ LET r == slots_fdset(slots, {}, {})
       IN  /\ slots' = r.slots
           /\ readers' = r.readers
           /\ writers' = r.writers
           /\ last_call' = Called("slots_fdset")
    /\ pc' = "polled"
    /\ UNCHANGED <<kernel, env, now, aborted>>

\* select() leaves any part of both sets; then slots_fdset_loop.  With
\* logged the record of the call keeps the two sets and the slots that
\* conn_read and conn_write were called on.
FdsetLoop(logged) ==
    /\ UNCHANGED <<tsVars, snVars, rsVars, maskVars>>
    /\ pc = "polled" /\ ~aborted
    /\ \E rd \in SUBSET readers, wr \in SUBSET writers :
       \E w \in slots_fdset_loop(slots, kernel, rd, wr, env, now) :
           /\ slots' = w.slots
           /\ kernel' = w.kernel
           /\ aborted' = w.aborted
           /\ last_call' = IF logged
                            THEN [op |-> "slots_fdset_loop", ret |-> w.ret,
                                  readers |-> rd, writers |-> wr,
                                  reads |-> w.reads, writes |-> w.writes]
                            ELSE Returned("slots_fdset_loop", w.ret)
    /\ readers' = {}
    /\ writers' = {}
    /\ pc' = "idle"
    /\ UNCHANGED <<env, now>>

SlotsFdsetLoop == FdsetLoop(FALSE)

SlotsFdsetLoopLogged == FdsetLoop(TRUE)

\* slots_accept called on its own
SlotsAccept ==
    /\ UNCHANGED <<tsVars, snVars, rsVars, maskVars>>
    /\ Running
    /\ slots.nr_open < slots.nr_slots + MaxDrift
    /\ \E listen_nr \in DOMAIN slots.listen, acc \in AcceptOutcomes(env.reqs) :
           /\ slots.listen[listen_nr] # NoFd
           /\ LET a == slots_accept(slots, kernel, acc, now)
              IN  /\ slots' = a.slots
                  /\ kernel' = a.kernel
                  /\ last_call' = Returned("slots_accept", a.ret)
    /\ UNCHANGED <<env, readers, writers, pc, now, aborted>>

SlotsCloseidle ==
    /\ UNCHANGED <<tsVars, snVars, rsVars, maskVars>>
    /\ Running
    /\ LET r == slots_closeidle(slots, kernel, now)
       IN  /\ slots' = r.slots
           /\ kernel' = r.kernel
           /\ last_call' = Returned("slots_closeidle", r.ret)
    /\ UNCHANGED <<env, readers, writers, pc, now, aborted>>

\* conn_read called on an open slot
ConnRead ==
    /\ UNCHANGED <<tsVars, snVars, rsVars, maskVars>>
    /\ Running
    /\ \E i \in OpenSlots(slots) :
       \E rd \in ReadOutcomes(kernel, slots.conn[i].fd,
                               ReadRoom(slots.conn[i]), env) :
           LET r == conn_read(slots.conn[i], rd, now)
           IN  /\ slots' = [slots EXCEPT !.conn[i] = r.conn]
               /\ kernel' = AfterRead(kernel, slots.conn[i].fd, rd)
               /\ aborted' = r.aborted
               /\ last_call' = [op |-> "conn_read", slot |-> i,
                                size |-> Min(rd.size, 1),
                                errno |-> IF rd.size = -1 THEN rd.errno ELSE "none"]
    /\ UNCHANGED <<env, readers, writers, pc, now>>

\* conn_write called on an open slot that is sending
ConnWrite ==
    /\ UNCHANGED <<tsVars, snVars, rsVars, maskVars>>
    /\ Running
    /\ \E i \in OpenSlots(slots) :
           /\ conn_iswriter(slots.conn[i])
           /\ \E sent \in WriteOutcomes(Len(conn_write_vecs(slots.conn[i]))) :
                  /\ slots' = [slots EXCEPT !.conn[i] = conn_write(@, sent, now)]
                  /\ last_call' = [op |-> "conn_write", slot |-> i, sent |-> sent,
                                   bytes |-> Written(slots.conn[i], sent)]
    /\ UNCHANGED <<kernel, env, readers, writers, pc, now, aborted>>

\* the application answers a complete request: it fills the reply header,
\* points reply at the body and calls conn_write
StageReply ==
    /\ UNCHANGED <<tsVars, snVars, rsVars, maskVars>>
    /\ Running
    /\ \E i \in OpenSlots(slots), rep \in env.replies :
           /\ slots.conn[i].state = CONN_READY
           /\ LET c == [slots.conn[i] EXCEPT
                            !.reply_header.str = rep.header,
                            !.reply = [null |-> FALSE, str |-> rep.body]]
              IN  \E sent \in WriteOutcomes(Len(conn_write_vecs(c))) :
                      /\ slots' = [slots EXCEPT !.conn[i] = conn_write(c, sent, now)]
                      /\ last_call' = [op |-> "staged", slot |-> i, sent |-> sent,
                                       bytes |-> Written(c, sent)]
    /\ UNCHANGED <<kernel, env, readers, writers, pc, now, aborted>>

\* conn_close called on an open slot
ConnClose ==
    /\ UNCHANGED <<tsVars, snVars, rsVars, maskVars>>
    /\ Running
    /\ \E i \in OpenSlots(slots) :
           /\ slots' = [slots EXCEPT !.conn[i] = conn_close(@)]
           /\ kernel' = closesocket(kernel, slots.conn[i].fd)
    /\ last_call' = Called("conn")
    /\ UNCHANGED <<env, readers, writers, pc, now, aborted>>

\* time passes
Tick ==
    /\ UNCHANGED <<tsVars, snVars, rsVars, maskVars>>
    /\ Running
    /\ \E t \in env.times : t > now /\ now' = t
    /\ UNCHANGED <<slots, kernel, env, readers, writers, pc, aborted, last_call>>

SlotsInit(nr_slots, e) ==
    /\ slots = slots_malloc(nr_slots, RequestMax, RequestMax)
    /\ kernel = StdStreams
    /\ env = e
    /\ readers = {}
    /\ writers = {}
    /\ pc = "idle"
    /\ now = 0
    /\ aborted = FALSE
    /\ last_call = Called("slots_malloc")

Next ==
    \/ SlotsListen
    \/ SlotsFdset
    \/ SlotsFdsetLoop
    \/ SlotsAccept
    \/ SlotsCloseidle
    \/ ConnRead
    \/ ConnWrite
    \/ StageReply
    \/ ConnClose
    \/ Tick

(***************************************************************************)
(* uint64_t values, held as four 16 bit limbs, the highest first, so that  *)
(* no limb product leaves the range of 32 bit signed integers.            *)
(***************************************************************************)
\* a & b for two values of n bits
RECURSIVE BitsAnd(_, _, _)
BitsAnd(a, b, n) ==
    IF n = 0 \/ a = 0 \/ b = 0 THEN 0
    ELSE IF a = 2 ^ n - 1 THEN b
    ELSE IF b = 2 ^ n - 1 THEN a
    ELSE (a % 2) * (b % 2) + 2 * BitsAnd(a \div 2, b \div 2, n - 1)

U64Zero == <<0, 0, 0, 0>>

U64One == <<0, 0, 0, 1>>

Limb(a, j) == IF j \in 1..4 THEN a[j] ELSE 0

\* a & b
U64And(a, b) ==
    <<BitsAnd(a[1], b[1], 16), BitsAnd(a[2], b[2], 16),
      BitsAnd(a[3], b[3], 16), BitsAnd(a[4], b[4], 16)>>

\* ~a
U64Not(a) ==
    <<Two16 - 1 - a[1], Two16 - 1 - a[2], Two16 - 1 - a[3], Two16 - 1 - a[4]>>

\* a | b == ~(~a & ~b)
U64Or(a, b) == U64Not(U64And(U64Not(a), U64Not(b)))

\* a + b, modulo 2^64
U64Add(a, b) ==
    LET s4 == a[4] + b[4]
        s3 == a[3] + b[3] + (s4 \div Two16)
        s2 == a[2] + b[2] + (s3 \div Two16)
        s1 == a[1] + b[1] + (s2 \div Two16)
    IN  <<s1 % Two16, s2 % Two16, s3 % Two16, s4 % Two16>>

\* -a, modulo 2^64
U64Neg(a) == U64Add(U64Not(a), U64One)

\* a - b, modulo 2^64
U64Sub(a, b) == U64Add(a, U64Neg(b))

\* a >> k, 0 <= k < 64
U64Shr(a, k) ==
    LET q == k \div 16
        r == k % 16
        limb(i) == (Limb(a, i - q) \div (2 ^ r))
                   + (Limb(a, i - q - 1) % (2 ^ r)) * (2 ^ (16 - r))
    IN  <<limb(1), limb(2), limb(3), limb(4)>>

\* a << k, 0 <= k < 64
U64Shl(a, k) ==
    LET q == k \div 16
        r == k % 16
        limb(i) == ((Limb(a, i + q) * (2 ^ r)) % Two16)
                   + (Limb(a, i + q + 1) \div (2 ^ (16 - r)))
    IN  <<limb(1), limb(2), limb(3), limb(4)>>

\* a < b, both unsigned
U64Lt(a, b) ==
    \E i \in 1..4 : a[i] < b[i] /\ \A j \in 1..(i - 1) : a[j] = b[j]

\* the sign bit of a read as int64_t
S64Negative(a) == a[1] >= Two16 \div 2

\* a < b, both read as int64_t
S64Lt(a, b) ==
    IF S64Negative(a) # S64Negative(b) THEN S64Negative(a) ELSE U64Lt(a, b)

\* the value of a C truth value
U64Bool(b) == IF b THEN U64One ELSE U64Zero

(***************************************************************************)
(* time_stamp()                                                            *)
(***************************************************************************)
\* ((uint64_t)(tod.tv_sec) << 32) + ((uint64_t)tod.tv_usec << 12); tv_sec
\* is held as the two limbs of its low 32 bits, tv_usec is below 1000000
MicroSeconds(tod) ==
    <<tod.tv_sec[1], tod.tv_sec[2], tod.tv_usec \div 16, (tod.tv_usec % 16) * 4096>>

\* mask_lo as computed from a co flag
MaskLo(co) ==
    LET m == U64Shr(U64Neg(co), 32)
    IN  U64Or(m, U64Shr(U64Not(m), 52))

\* time_stamp() with a co flag that is computed anew on every call
time_stamp_forgets_co(tod, issued) ==
    LET micro_seconds == MicroSeconds(tod)
        co == U64Shr(U64Shl(issued, 63), 63)
        mask_lo == MaskLo(co)
        mask_hi == U64Not(mask_lo)
        hi_unchanged == U64Bool(U64And(issued, mask_hi)
                                = U64And(micro_seconds, mask_hi))
        counter0 == U64Shr(U64And(issued, mask_lo), 4)
        counter1 == U64Add(counter0, hi_unchanged)
        counter2 == U64And(counter1, U64Neg(hi_unchanged))
        counter == U64Shl(counter2, 4)
        new_co == U64And(U64Bool(U64And(counter, mask_lo) = U64Zero),
                         hi_unchanged)
        new_mask_hi == U64Not(MaskLo(new_co))
    IN  U64Or(U64Or(U64And(micro_seconds, new_mask_hi), counter), new_co)

\* time_stamp(): the stamp returned, which is also the new value of
\* previously_issued_time_stamp
time_stamp(tod, issued) ==
    LET micro_seconds == MicroSeconds(tod)
        co == U64Shr(U64Shl(issued, 63), 63)
        mask_lo == MaskLo(co)
        mask_hi == U64Not(mask_lo)
        hi_unchanged == U64Bool(U64And(issued, mask_hi)
                                = U64And(micro_seconds, mask_hi))
        counter0 == U64Shr(U64And(issued, mask_lo), 4)
        counter1 == U64Add(counter0, hi_unchanged)
        counter2 == U64And(counter1, U64Neg(hi_unchanged))
        counter == U64Shl(counter2, 4)
        new_co == U64Or(U64And(U64Bool(U64And(counter, mask_lo) = U64Zero),
                               hi_unchanged),
                        co)
        new_mask_hi == U64Not(MaskLo(new_co))
    IN  U64Or(U64Or(U64And(micro_seconds, new_mask_hi), counter), new_co)

(***************************************************************************)
(* time_stamp_verify_and_update()                                          *)
(***************************************************************************)
\* 0x0000001000000000LL
TIME_STAMP_FRAME == <<0, 16, 0, 0>>

\* 0x0000000027100000LL
TIME_STAMP_JITTER == <<0, 0, 10000, 0>>

INT64_MIN == <<Two16 \div 2, 0, 0, 0>>

\* verify_and_update with line 814 keeping the lower of the two stamps
verify_and_update_keeps_lower(stamp, previous, allow_jitter, now_stamp) ==
    LET co == U64Shr(U64Shl(stamp, 63), 63)
        diff0 == U64Sub(stamp, now_stamp)
        abs == IF S64Negative(diff0) THEN U64Neg(diff0) ELSE diff0
        out_of_frame == IF diff0 = INT64_MIN THEN {TRUE, FALSE}
                        ELSE {~S64Lt(abs, TIME_STAMP_FRAME)}
        diff1 == U64Sub(stamp, previous[1])
        diff2 == IF allow_jitter
                 THEN U64Add(diff1, U64Shl(TIME_STAMP_JITTER, co[4] * 8))
                 ELSE diff1
        overflows == allow_jitter /\ ~S64Negative(diff1) /\ S64Negative(diff2)
        too_old == IF previous = <<>> THEN {FALSE}
                   ELSE IF overflows THEN {TRUE, FALSE}
                   ELSE {~S64Lt(U64Zero, diff2)}
        higher == IF previous = <<>> THEN <<>>
                  ELSE IF U64Lt(previous[1], stamp) THEN previous ELSE <<stamp>>
    IN  {IF f \/ o
         THEN [ret |-> 0, previous |-> previous, issued |-> now_stamp]
         ELSE [ret |-> 1, previous |-> higher, issued |-> now_stamp]
         : f \in out_of_frame, o \in too_old}

\* verify_and_update with line 814 storing the stamp as it is
verify_and_update_stores_stamp(stamp, previous, allow_jitter, now_stamp) ==
    LET co == U64Shr(U64Shl(stamp, 63), 63)
        diff0 == U64Sub(stamp, now_stamp)
        abs == IF S64Negative(diff0) THEN U64Neg(diff0) ELSE diff0
        out_of_frame == IF diff0 = INT64_MIN THEN {TRUE, FALSE}
                        ELSE {~S64Lt(abs, TIME_STAMP_FRAME)}
        diff1 == U64Sub(stamp, previous[1])
        diff2 == IF allow_jitter
                 THEN U64Add(diff1, U64Shl(TIME_STAMP_JITTER, co[4] * 8))
                 ELSE diff1
        overflows == allow_jitter /\ ~S64Negative(diff1) /\ S64Negative(diff2)
        too_old == IF previous = <<>> THEN {FALSE}
                   ELSE IF overflows THEN {TRUE, FALSE}
                   ELSE {~S64Lt(U64Zero, diff2)}
        higher == IF previous = <<>> THEN <<>>
                  ELSE <<stamp>>
    IN  {IF f \/ o
         THEN [ret |-> 0, previous |-> previous, issued |-> now_stamp]
         ELSE [ret |-> 1, previous |-> higher, issued |-> now_stamp]
         : f \in out_of_frame, o \in too_old}

\* lines 789-817, with now_stamp the stamp that line 792 gets from
\* time_stamp(); previous is <<>> for NULL and <<v>> for a pointer to v.
\* The results: the value returned and *previous_stamp.  Negating
\* INT64_MIN and a signed sum that overflows are undefined: the test that
\* follows can go either way.
verify_and_update(stamp, previous, allow_jitter, now_stamp) ==
    LET co == U64Shr(U64Shl(stamp, 63), 63)
        diff0 == U64Sub(stamp, now_stamp)
        abs == IF S64Negative(diff0) THEN U64Neg(diff0) ELSE diff0
        out_of_frame == IF diff0 = INT64_MIN THEN {TRUE, FALSE}
                        ELSE {~S64Lt(abs, TIME_STAMP_FRAME)}
        diff1 == U64Sub(stamp, previous[1])
        diff2 == IF allow_jitter
                 THEN U64Add(diff1, U64Shl(TIME_STAMP_JITTER, co[4] * 8))
                 ELSE diff1
        overflows == allow_jitter /\ ~S64Negative(diff1) /\ S64Negative(diff2)
        too_old == IF previous = <<>> THEN {FALSE}
                   ELSE IF overflows THEN {TRUE, FALSE}
                   ELSE {~S64Lt(U64Zero, diff2)}
        higher == IF previous = <<>> THEN <<>>
                  ELSE IF U64Lt(previous[1], stamp) THEN <<stamp>> ELSE previous
    IN  {IF f \/ o
         THEN [ret |-> 0, previous |-> previous, issued |-> now_stamp]
         ELSE [ret |-> 1, previous |-> higher, issued |-> now_stamp]
         : f \in out_of_frame, o \in too_old}

\* time_stamp_verify_and_update(stamp, previous_stamp, allow_jitter), called
\* at the time tod: the results, each with the new value of
\* previously_issued_time_stamp
time_stamp_verify_and_update(stamp, previous, allow_jitter, tod, issued) ==
    UNION {verify_and_update(stamp, previous, allow_jitter, now_stamp)
           : now_stamp \in {time_stamp(tod, issued)}}

(***************************************************************************)
(* The time stamps: the clock, and one action per call.                    *)
(***************************************************************************)
\* the order of two times of day
TodLt(a, b) ==
    \/ U64Lt(<<0, 0, a.tv_sec[1], a.tv_sec[2]>>, <<0, 0, b.tv_sec[1], b.tv_sec[2]>>)
    \/ a.tv_sec = b.tv_sec /\ a.tv_usec < b.tv_usec

\* the counter of a stamp: bits 4..31 of a counter-only stamp, bits 4..11
\* of any other
CounterOf(stamp) ==
    IF stamp[4] % 2 = 1
    THEN stamp[3] * 4096 + (stamp[4] \div 16)
    ELSE (stamp[4] % 4096) \div 16

\* the wall clock moves on
ClockTick ==
    /\ UNCHANGED <<slotVars, snVars, rsVars, maskVars>>
    /\ \E t \in clock.ticks :
           /\ TodLt(clock.tod, t)
           /\ clock' = [clock EXCEPT !.tod = t]
    /\ UNCHANGED <<previously_issued_time_stamp, previous_stamp, ts_call>>

\* time_stamp(), while the counter of the stamps stays within burst
TimeStampCall(burst) ==
    /\ UNCHANGED <<slotVars, snVars, rsVars, maskVars>>
    /\ LET stamp == time_stamp(clock.tod, previously_issued_time_stamp)
       IN  /\ CounterOf(stamp) <= burst
           /\ previously_issued_time_stamp' = stamp
           /\ ts_call' = [op |-> "time_stamp",
                          flip |-> IF ts_call.op = "time_stamp"
                                   THEN ~ts_call.flip ELSE FALSE]
    /\ UNCHANGED <<clock, previous_stamp>>

\* time_stamp_verify_and_update(stamp, &previous_stamp, allow_jitter) or
\* time_stamp_verify_and_update(stamp, NULL, allow_jitter)
VerifyCall(stamps, burst) ==
    /\ UNCHANGED <<slotVars, snVars, rsVars, maskVars>>
    /\ \E stamp \in stamps, allow_jitter \in BOOLEAN, with_previous \in BOOLEAN :
       \E r \in time_stamp_verify_and_update(
                    stamp, IF with_previous THEN <<previous_stamp>> ELSE <<>>,
                    allow_jitter, clock.tod, previously_issued_time_stamp) :
           /\ CounterOf(r.issued) <= burst
           /\ previously_issued_time_stamp' = r.issued
           /\ previous_stamp' = IF with_previous THEN r.previous[1]
                                ELSE previous_stamp
           /\ ts_call' = [op |-> "verify", fresh |-> FALSE, stamp |-> stamp,
                          allow_jitter |-> allow_jitter,
                          with_previous |-> with_previous, ret |-> r.ret]
    /\ UNCHANGED clock

\* time_stamp_verify_and_update(time_stamp(), &previous_stamp, allow_jitter)
VerifyFreshCall(burst) ==
    /\ UNCHANGED <<slotVars, snVars, rsVars, maskVars>>
    /\ \E allow_jitter \in BOOLEAN :
       \E stamp \in {time_stamp(clock.tod, previously_issued_time_stamp)} :
           \E r \in time_stamp_verify_and_update(
                        stamp, <<previous_stamp>>, allow_jitter, clock.tod, stamp) :
               /\ CounterOf(r.issued) <= burst
               /\ previously_issued_time_stamp' = r.issued
               /\ previous_stamp' = r.previous[1]
               /\ ts_call' = [op |-> "verify", fresh |-> TRUE, stamp |-> stamp,
                              allow_jitter |-> allow_jitter,
                              with_previous |-> TRUE, ret |-> r.ret]
    /\ UNCHANGED clock

(***************************************************************************)
(* bitlen2mask() and mask2bitlen(): a subnet mask is a uint32_t, held as   *)
(* <<high 16 bits, low 16 bits>>.                                          *)
(***************************************************************************)
\* the width of a mask
MaskBits == 32

\* a << k on 32 bits, 0 <= k < 32; for the int 1 and k = 31 this is the
\* bit pattern of INT_MIN, which is what the compilers make of 1 << 31
U32Shl(a, k) ==
    LET q == k \div 16
        r == k % 16
        at(j) == IF j \in 1..2 THEN a[j] ELSE 0
        limb(i) == ((at(i + q) * (2 ^ r)) % Two16)
                   + (at(i + q + 1) \div (2 ^ (16 - r)))
    IN  <<limb(1), limb(2)>>

\* a & b
U32And(a, b) == <<BitsAnd(a[1], b[1], 16), BitsAnd(a[2], b[2], 16)>>

\* a | b == a + b - (a & b), limb by limb
U32Or(a, b) ==
    <<a[1] + b[1] - BitsAnd(a[1], b[1], 16), a[2] + b[2] - BitsAnd(a[2], b[2], 16)>>

\* 0x80000000
TopBit == <<Two16 \div 2, 0>>

\* the loop of bitlen2mask ending one bit early
RECURSIVE bitlen2mask_short_loop(_, _, _)
bitlen2mask_short_loop(i, bitlen, mask) ==
    IF i < bitlen
    THEN bitlen2mask_short_loop(i + 1, bitlen, U32Or(mask, U32Shl(U32(1), 32 - i)))
    ELSE mask

bitlen2mask_stops_short(bitlen) == bitlen2mask_short_loop(1, bitlen, U32Zero)

\* for(i = 1; i <= bitlen; ++i) mask |= 1 << (32 - i);
RECURSIVE bitlen2mask_loop(_, _, _)
bitlen2mask_loop(i, bitlen, mask) ==
    IF i <= bitlen
    THEN bitlen2mask_loop(i + 1, bitlen, U32Or(mask, U32Shl(U32(1), 32 - i)))
    ELSE mask

bitlen2mask(bitlen) == bitlen2mask_loop(1, bitlen, U32Zero)

\* for(i = 0; i < 32; ++i) if((mask << i) & 0x80000000) ++bitlen; else break;
RECURSIVE mask2bitlen_loop(_, _, _)
mask2bitlen_loop(i, mask, bitlen) ==
    IF i < 32 /\ U32And(U32Shl(mask, i), TopBit) # U32Zero
    THEN mask2bitlen_loop(i + 1, mask, bitlen + 1)
    ELSE bitlen

mask2bitlen(mask) == mask2bitlen_loop(0, mask, 0)

\* masks as a configuration file can hold them, with and without holes
MaskLimbs == {0, 1, 255, 32768, 49152, 65280, 65534, 65535}

MaskInputs == {<<hi, lo>> : hi \in MaskLimbs, lo \in MaskLimbs}

\* bitlen2mask called with a prefix length of 0..32 bits
Bitlen2Mask ==
    /\ UNCHANGED <<slotVars, tsVars, snVars, rsVars>>
    /\ \E bitlen \in 0..MaskBits :
           mask_call' = [op |-> "bitlen2mask", bitlen |-> bitlen,
                         mask |-> bitlen2mask(bitlen)]

\* mask2bitlen called on the mask bitlen2mask has just returned
Mask2Bitlen ==
    /\ UNCHANGED <<slotVars, tsVars, snVars, rsVars>>
    /\ mask_call.op = "bitlen2mask"
    /\ mask_call' = [op |-> "mask2bitlen", bitlen |-> mask_call.bitlen,
                     mask |-> mask_call.mask, ret |-> mask2bitlen(mask_call.mask)]

\* mask2bitlen called on a mask that was typed in
Mask2BitlenOf ==
    /\ UNCHANGED <<slotVars, tsVars, snVars, rsVars>>
    /\ \E mask \in MaskInputs :
           mask_call' = [op |-> "mask2bitlen_of", mask |-> mask,
                         ret |-> mask2bitlen(mask)]

(***************************************************************************)
(* The supernode list: a uthash table of struct peer_info keyed by         *)
(* mac_addr.  The list holds the records in the order of HASH_ITER; hashv  *)
(* is the key the record was added under.                                  *)
(***************************************************************************)
null_mac == 0

NullPeer == 0

SN_ADD == "SN_ADD"
SN_ADD_SKIP == "SN_ADD_SKIP"
SN_ADD_ADDED == "SN_ADD_ADDED"

is_null_mac(mac) == mac = null_mac

\* HASH_FIND_PEER(head, mac, out): the place in the list of the record
\* added under mac that still holds mac as its key, 0 if there is none
HASH_FIND_PEER(list, mac) ==
    LET hits == {i \in 1..Len(list) :
                     list[i].hashv = mac /\ list[i].mac_addr = mac}
    IN  IF hits = {} THEN 0 ELSE CHOOSE i \in hits : \A j \in hits : i <= j

\* HASH_DEL(head, list[i])
HASH_DEL(list, i) == SubSeq(list, 1, i - 1) \o SubSeq(list, i + 1, Len(list))

\* HASH_ADD_PEER(head, peer)
HASH_ADD_PEER(list, peer) == Append(list, [peer EXCEPT !.hashv = peer.mac_addr])

\* peer_info_malloc(mac): a record at the address id
peer_info_malloc(mac, id) ==
    [id |-> id, mac_addr |-> mac, hashv |-> null_mac, sock |-> 0,
     selection_criterion |-> "unset"]

\* the first record of the list whose sock is sock, 0 if there is none
FindBySock(list, sock) ==
    LET hits == {i \in 1..Len(list) : list[i].sock = sock}
    IN  IF hits = {} THEN 0 ELSE CHOOSE i \in hits : \A j \in hits : i <= j

\* add_sn_to_list_by_mac_or_sock with lines 433-435 replaced by the memcpy
\* alone: the record keeps its place in the table
add_sn_rekeys_in_place(list, sock, mac, skip_add, id) ==
    LET by_mac == IF is_null_mac(mac) THEN 0 ELSE HASH_FIND_PEER(list, mac)
        by_sock == FindBySock(list, sock)
        created == [peer_info_malloc(mac, id) EXCEPT
                        !.selection_criterion = "default", !.sock = sock]
    IN  IF by_mac # 0 THEN
            [list |-> list, skip_add |-> skip_add, peer |-> list[by_mac].id]
        ELSE IF by_sock # 0 THEN
            [list |-> IF is_null_mac(mac) THEN list
                      ELSE [list EXCEPT ![by_sock].mac_addr = mac],
             skip_add |-> skip_add,
             peer |-> list[by_sock].id]
        ELSE IF skip_add = SN_ADD /\ id # NullPeer THEN
            [list |-> HASH_ADD_PEER(list, created),
             skip_add |-> SN_ADD_ADDED,
             peer |-> id]
        ELSE [list |-> list, skip_add |-> skip_add, peer |-> NullPeer]

\* add_sn_to_list_by_mac_or_sock with line 432 asking for a record without
\* MAC as well: a record that has a MAC keeps it
add_sn_keeps_mac(list, sock, mac, skip_add, id) ==
    LET by_mac == IF is_null_mac(mac) THEN 0 ELSE HASH_FIND_PEER(list, mac)
        by_sock == FindBySock(list, sock)
        created == [peer_info_malloc(mac, id) EXCEPT
                        !.selection_criterion = "default", !.sock = sock]
    IN  IF by_mac # 0 THEN
            [list |-> list, skip_add |-> skip_add, peer |-> list[by_mac].id]
        ELSE IF by_sock # 0 THEN
            [list |-> IF is_null_mac(mac) \/ ~is_null_mac(list[by_sock].mac_addr)
                      THEN list
                      ELSE HASH_ADD_PEER(HASH_DEL(list, by_sock),
                                         [list[by_sock] EXCEPT !.mac_addr = mac]),
             skip_add |-> skip_add,
             peer |-> list[by_sock].id]
        ELSE IF skip_add = SN_ADD /\ id # NullPeer THEN
            [list |-> HASH_ADD_PEER(list, created),
             skip_add |-> SN_ADD_ADDED,
             peer |-> id]
        ELSE [list |-> list, skip_add |-> skip_add, peer |-> NullPeer]

\* add_sn_to_list_by_mac_or_sock without line 448: the record is added and
\* *skip_add stays SN_ADD
add_sn_keeps_skip_add(list, sock, mac, skip_add, id) ==
    LET by_mac == IF is_null_mac(mac) THEN 0 ELSE HASH_FIND_PEER(list, mac)
        by_sock == FindBySock(list, sock)
        created == [peer_info_malloc(mac, id) EXCEPT
                        !.selection_criterion = "default", !.sock = sock]
    IN  IF by_mac # 0 THEN
            [list |-> list, skip_add |-> skip_add, peer |-> list[by_mac].id]
        ELSE IF by_sock # 0 THEN
            [list |-> IF is_null_mac(mac) THEN list
                      ELSE HASH_ADD_PEER(HASH_DEL(list, by_sock),
                                         [list[by_sock] EXCEPT !.mac_addr = mac]),
             skip_add |-> skip_add,
             peer |-> list[by_sock].id]
        ELSE IF skip_add = SN_ADD /\ id # NullPeer THEN
            [list |-> HASH_ADD_PEER(list, created),
             skip_add |-> skip_add,
             peer |-> id]
        ELSE [list |-> list, skip_add |-> skip_add, peer |-> NullPeer]

\* add_sn_to_list_by_mac_or_sock(&list, sock, mac, &skip_add), with id the
\* address peer_info_malloc returns if it is called, NullPeer for NULL (the
\* if(peer) of line 444): the list, *skip_add and the record returned (its
\* address, NullPeer for NULL)
add_sn_to_list_by_mac_or_sock(list, sock, mac, skip_add, id) ==
    LET by_mac == IF is_null_mac(mac) THEN 0 ELSE HASH_FIND_PEER(list, mac)
        by_sock == FindBySock(list, sock)
        created == [peer_info_malloc(mac, id) EXCEPT
                        !.selection_criterion = "default", !.sock = sock]
    IN  IF by_mac # 0 THEN
            [list |-> list, skip_add |-> skip_add, peer |-> list[by_mac].id]
        ELSE IF by_sock # 0 THEN
            [list |-> IF is_null_mac(mac) THEN list
                      ELSE HASH_ADD_PEER(HASH_DEL(list, by_sock),
                                         [list[by_sock] EXCEPT !.mac_addr = mac]),
             skip_add |-> skip_add,
             peer |-> list[by_sock].id]
        ELSE IF skip_add = SN_ADD /\ id # NullPeer THEN
            [list |-> HASH_ADD_PEER(list, created),
             skip_add |-> SN_ADD_ADDED,
             peer |-> id]
        ELSE [list |-> list, skip_add |-> skip_add, peer |-> NullPeer]

\* the search by MAC finds nothing (or is not made) and the scan by socket
\* finds a record
BySockOnly(list, sock, mac) ==
    /\ is_null_mac(mac) \/ HASH_FIND_PEER(list, mac) = 0
    /\ FindBySock(list, sock) # 0

\* neither the search by MAC nor the scan by socket finds a record: peer is
\* NULL at line 442
Unmatched(list, sock, mac) ==
    /\ is_null_mac(mac) \/ HASH_FIND_PEER(list, mac) = 0
    /\ FindBySock(list, sock) = 0

\* a call of add_sn_to_list_by_mac_or_sock on the list, peer_info_malloc
\* handing out the next address or NULL
AddSn ==
    /\ UNCHANGED <<slotVars, tsVars, rsVars, maskVars>>
    /\ \E sock \in 1..MaxSocks, mac \in 0..MaxMacs,
          skip_add \in {SN_ADD, SN_ADD_SKIP, SN_ADD_ADDED},
          id \in {next_peer, NullPeer} :
           LET r == add_sn_to_list_by_mac_or_sock(sn_list, sock, mac, skip_add, id)
           IN  /\ sn_list' = r.list
               /\ next_peer' = IF r.peer = next_peer THEN next_peer + 1 ELSE next_peer
               /\ sn_call' = [op |-> "add_sn", sock |-> sock, mac |-> mac,
                              skip_add |-> skip_add, skip_add_after |-> r.skip_add,
                              peer |-> r.peer,
                              malloc |-> IF Unmatched(sn_list, sock, mac)
                                            /\ skip_add = SN_ADD
                                         THEN id ELSE NullPeer,
                              found_by_sock |-> BySockOnly(sn_list, sock, mac),
                              mac_before |->
                                  IF BySockOnly(sn_list, sock, mac)
                                  THEN sn_list[FindBySock(sn_list, sock)].mac_addr
                                  ELSE null_mac]

(***************************************************************************)
(* The resolver: supernode2sock, resolve_thread, resolve_create_thread,    *)
(* resolve_cancel_thread and resolve_check.  An n2n_sock_t is a record of  *)
(* family, port and addr (the bytes of the addr union, as one value); a    *)
(* name is the string of org_ip, one character per element.                *)
(***************************************************************************)
AF_INVALID == "AF_INVALID"
AF_INET == "AF_INET"

N2N_RESOLVE_INTERVAL == 300
N2N_RESOLVE_CHECK_INTERVAL == 30

\* strtok(s, ":") from position i of s: the token (null: there is none) and
\* the position the next call starts from
RECURSIVE SkipColons(_, _)
SkipColons(s, i) ==
    IF i <= Len(s) /\ s[i] = ":" THEN SkipColons(s, i + 1) ELSE i

RECURSIVE TokenEnd(_, _)
TokenEnd(s, i) ==
    IF i <= Len(s) /\ s[i] # ":" THEN TokenEnd(s, i + 1) ELSE i

strtok(s, i) ==
    LET b == SkipColons(s, i)
        e == TokenEnd(s, b)
    IN  IF b > Len(s) THEN [null |-> TRUE, token |-> <<>>, next |-> b]
        ELSE [null |-> FALSE, token |-> SubSeq(s, b, e - 1), next |-> e + 1]

\* the digits of atoi, the value kept to the 16 bits of sn->port
RECURSIVE AtoiDigits(_, _, _)
AtoiDigits(s, i, acc) ==
    IF i > Len(s) \/ ~IsDigit(s[i]) THEN acc
    ELSE AtoiDigits(s, i + 1, (acc * 10 + DigitVal[s[i]]) % Two16)

\* (uint16_t)atoi(s)
atoi_uint16(s) ==
    LET i   == SkipSpace(s, 1)
        neg == i <= Len(s) /\ s[i] = "-"
        j   == IF i <= Len(s) /\ s[i] \in {"-", "+"} THEN i + 1 ELSE i
        v   == AtoiDigits(s, j, 0)
    IN  IF neg THEN (Two16 - v) % Two16 ELSE v

\* supernode2sock(sn, addrIn), getaddrinfo answering lookup (nameerr, and
\* ai_family and sin_addr of the first addrinfo, ai_family "NULL" for no
\* addrinfo): the value returned and *sn
supernode2sock(sn, addrIn, lookup) ==
    LET sn1  == [sn EXCEPT !.family = AF_INVALID]
        host == strtok(addrIn, 1)
        port == strtok(addrIn, host.next)
        sn2  == [sn1 EXCEPT !.port = atoi_uint16(port.token)]
    IN  IF host.null THEN [ret |-> -4, sn |-> sn1]
        ELSE IF port.null THEN [ret |-> -3, sn |-> sn1]
        ELSE IF lookup.nameerr # 0 THEN [ret |-> -2, sn |-> sn2]
        ELSE IF lookup.ai_family # AF_INET THEN [ret |-> -1, sn |-> sn2]
        ELSE [ret |-> 0,
              sn  |-> [sn2 EXCEPT !.addr = lookup.sin_addr, !.family = AF_INET]]

\* sock_equal(a, b)
sock_equal(a, b) ==
    IF a.port # b.port THEN 0
    ELSE IF a.family # b.family THEN 0
    ELSE IF a.addr # b.addr THEN 0
    ELSE 1

(***************************************************************************)
(* param->access.  The block comes from calloc: before pthread_mutex_init  *)
(* the mutex is all zero bytes, and locking it is undefined: the lock is   *)
(* taken as on an initialised mutex, or the call fails and the caller,     *)
(* which does not look at the result, goes on without the lock.            *)
(***************************************************************************)
NoThread == "none"

\* calloc
MutexZero == [init |-> FALSE, owner |-> NoThread]

\* pthread_mutex_init(&m, NULL)
pthread_mutex_init(m) == [init |-> TRUE, owner |-> NoThread]

\* pthread_mutex_lock(&m) can return to thread t
LockReturns(m, t) == m.owner = NoThread \/ ~m.init

\* the mutex after pthread_mutex_lock(&m) returned to thread t
pthread_mutex_lock(m, t) ==
    IF m.owner = NoThread
    THEN {[m EXCEPT !.owner = t]} \cup (IF m.init THEN {} ELSE {m})
    ELSE {m}

\* pthread_mutex_trylock(&m) by thread t: the value returned and the mutex
pthread_mutex_trylock(m, t) ==
    IF m.owner = NoThread
    THEN {[ret |-> 0, m |-> [m EXCEPT !.owner = t]]}
         \cup (IF m.init THEN {} ELSE {[ret |-> 22, m |-> m]})
    ELSE {[ret |-> 16, m |-> m]}

\* pthread_mutex_unlock(&m) by thread t; undefined when t does not hold m:
\* the mutex is released all the same, or left as it is
pthread_mutex_unlock(m, t) ==
    IF m.owner = t THEN {[m EXCEPT !.owner = NoThread]}
    ELSE {[m EXCEPT !.owner = NoThread], m}

(***************************************************************************)
(* The supernodes that come with a name, the answers of getaddrinfo and    *)
(* the clock.                                                              *)
(***************************************************************************)
ResolveNames ==
    <<  <<"a", ":", "7">>,  <<"b", ":", "8">>,  <<"c">>,  <<":">>  >>

\* the addresses the name service has for a host: host a moves between two
\* addresses, the others have one
HostAddrs(host) == IF host = <<"a">> THEN {1, 2} ELSE {1}

\* getaddrinfo(host, NULL, &aihints, &ainfo) with ai_family PF_INET in the
\* hints: an error, or a list of IPv4 addresses
LookupOutcomes(host) ==
    {[nameerr |-> -2, ai_family |-> "NULL", sin_addr |-> 0]}
    \cup {[nameerr |-> 0, ai_family |-> AF_INET, sin_addr |-> a] : a \in HostAddrs(host)}

\* the socket of a supernode before the resolver runs: the name resolved
\* once, to the first address
ZeroSock == [family |-> AF_INVALID, port |-> 0, addr |-> 0]

FirstSock(name) ==
    supernode2sock(ZeroSock, name,
                   [nameerr |-> 0, ai_family |-> AF_INET, sin_addr |-> 1]).sn

\* calloc(1, sizeof(n2n_resolve_parameter_t))
ParamZero ==
    [list |-> <<>>, changed |-> 0, request |-> 0, last_resolved |-> 0,
     last_checked |-> 0, check_interval |-> 0, access |-> MutexZero]

WorkerUnborn ==
    [pc |-> "unborn", now |-> 0, rep_time |-> N2N_RESOLVE_INTERVAL \div 10,
     i |-> 0, cancel |-> FALSE]

ReactorStart == [pc |-> "start", requires_resolution |-> 0, now |-> 0]

(***************************************************************************)
(* resolve_create_thread                                                   *)
(***************************************************************************)
\* lines 316 to 331: the block and one entry for each supernode with a name
resolve_create_param(socks, names) ==
    [ParamZero EXCEPT
        !.list = [i \in 1..Len(names) |->
                     [org_ip |-> names[i], org_sock |-> i,
                      sock |-> socks[i], error_code |-> 0]],
        !.check_interval = N2N_RESOLVE_CHECK_INTERVAL]

\* lines 316 to 338: the block is built and the thread is started
ResolveCreateThread ==
    /\ UNCHANGED <<slotVars, tsVars, snVars, maskVars>>
    /\ reactor.pc = "start"
    /\ param' = resolve_create_param(supernodes, SubSeq(ResolveNames, 1, Len(supernodes)))
    /\ worker' = [worker EXCEPT !.pc = "sleep"]
    /\ reactor' = [reactor EXCEPT !.pc = "created"]
    /\ rs_call' = [op |-> "pthread_create"]
    /\ UNCHANGED <<param_freed, supernodes, rtime>>

\* line 344
ResolveMutexInit ==
    /\ UNCHANGED <<slotVars, tsVars, snVars, maskVars>>
    /\ reactor.pc = "created"
    /\ param' = [param EXCEPT !.access = pthread_mutex_init(param.access)]
    /\ reactor' = [reactor EXCEPT !.pc = "run"]
    /\ rs_call' = [op |-> "pthread_mutex_init"]
    /\ UNCHANGED <<param_freed, supernodes, worker, rtime>>

(***************************************************************************)
(* resolve_thread.  A step that reads or writes *param after free(param)   *)
(* is undefined: the thread is lost.                                       *)
(***************************************************************************)
WorkerLost(op) ==
    /\ worker' = [worker EXCEPT !.pc = "lost"]
    /\ rs_call' = [op |-> op, freed |-> TRUE]
    /\ UNCHANGED <<param, param_freed, supernodes, reactor, rtime>>

\* lines 266 to 269: sleep() is a cancellation point
WorkerWake ==
    /\ UNCHANGED <<slotVars, tsVars, snVars, maskVars>>
    /\ worker.pc = "sleep"
    /\ worker' = IF worker.cancel THEN [worker EXCEPT !.pc = "ended"]
                 ELSE [worker EXCEPT !.pc = "lock", !.now = rtime]
    /\ rs_call' = [op |-> "sleep", freed |-> FALSE]
    /\ UNCHANGED <<param, param_freed, supernodes, reactor, rtime>>

\* line 272
WorkerLock ==
    /\ UNCHANGED <<slotVars, tsVars, snVars, maskVars>>
    /\ worker.pc = "lock"
    /\ IF param_freed THEN WorkerLost("pthread_mutex_lock")
       ELSE /\ LockReturns(param.access, "worker")
            /\ \E m \in pthread_mutex_lock(param.access, "worker") :
                   param' = [param EXCEPT !.access = m]
            /\ worker' = [worker EXCEPT !.pc = "test"]
            /\ rs_call' = [op |-> "pthread_mutex_lock", freed |-> FALSE]
            /\ UNCHANGED <<param_freed, supernodes, reactor, rtime>>

\* lines 275 and 276: is it time to resolve yet?
WorkerTest ==
    /\ UNCHANGED <<slotVars, tsVars, snVars, maskVars>>
    /\ worker.pc = "test"
    /\ IF param_freed THEN WorkerLost("test")
       ELSE /\ worker' =
                  IF param.request # 0
                     \/ worker.now - param.last_resolved > worker.rep_time
                  THEN [worker EXCEPT
                           !.pc = IF Len(param.list) = 0 THEN "finish" ELSE "resolve",
                           !.i = 1]
                  ELSE [worker EXCEPT !.pc = "unlock"]
            /\ rs_call' = [op |-> "test", freed |-> FALSE]
            /\ UNCHANGED <<param, param_freed, supernodes, reactor, rtime>>

\* one entry of the pass with supernode2sock handed entry->org_sock: the
\* name is resolved into the live socket
resolve_entry_writes_live(p, i, socks, lookup) ==
    LET entry == p.list[i]
        r     == supernode2sock(socks[entry.org_sock], entry.org_ip, lookup)
        flag  == sock_equal(entry.sock, r.sn) = 0 /\ r.ret = 0
    IN  [param      |-> [p EXCEPT !.list[i].error_code = r.ret,
                                  !.changed = IF flag THEN 1 ELSE @],
         supernodes |-> [socks EXCEPT ![entry.org_sock] = r.sn]]

\* lines 278 to 284 for the entry at place i of the list, getaddrinfo
\* answering lookup: the block and the live sockets after it.
\* supernode2sock is handed &entry->sock; *entry->org_sock is only read
resolve_entry(p, i, socks, lookup) ==
    LET entry == p.list[i]
        r     == supernode2sock(entry.sock, entry.org_ip, lookup)
        flag  == sock_equal(r.sn, socks[entry.org_sock]) = 0 /\ r.ret = 0
    IN  [param      |-> [p EXCEPT !.list[i].sock = r.sn,
                                  !.list[i].error_code = r.ret,
                                  !.changed = IF flag THEN 1 ELSE @],
         supernodes |-> socks]

\* lines 276 to 285, one entry at a step.  getaddrinfo and the trace output
\* may act on a pending cancellation: the thread then ends inside
\* supernode2sock, with the mutex locked.  The entries are not part of the
\* block resolve_cancel_thread frees: only line 283 touches *param.
WorkerResolve ==
    /\ UNCHANGED <<slotVars, tsVars, snVars, maskVars>>
    /\ worker.pc = "resolve"
    /\ \E lookup \in LookupOutcomes(strtok(param.list[worker.i].org_ip, 1).token),
          acts \in {worker.cancel, FALSE} :
           LET r == resolve_entry(param, worker.i, supernodes, lookup)
               p == r.param
           IN  IF acts THEN
                   /\ param' = [param EXCEPT !.list[worker.i].sock = p.list[worker.i].sock]
                   /\ supernodes' = r.supernodes
                   /\ worker' = [worker EXCEPT !.pc = "ended"]
                   /\ rs_call' = [op |-> "cancelled", freed |-> FALSE]
                   /\ UNCHANGED <<param_freed, reactor, rtime>>
               ELSE IF param_freed /\ p.changed # param.changed THEN
                   WorkerLost("supernode2sock")
               ELSE
                   /\ param' = p
                   /\ supernodes' = r.supernodes
                   /\ worker' = [worker EXCEPT
                                    !.pc = IF worker.i = Len(param.list)
                                           THEN "finish" ELSE "resolve",
                                    !.i = worker.i + 1]
                   /\ rs_call' = [op |-> "supernode2sock", freed |-> FALSE]
                   /\ UNCHANGED <<param_freed, reactor, rtime>>

\* the end of a pass that leaves the request standing
resolve_finish_keeps_request(p, t) ==
    [param    |-> [p EXCEPT !.last_resolved = t],
     rep_time |-> IF \E i \in 1..Len(p.list) : p.list[i].error_code # 0
                  THEN N2N_RESOLVE_INTERVAL \div 10
                  ELSE N2N_RESOLVE_INTERVAL]

\* lines 286 to 298: the block and rep_time after a pass
resolve_finish(p, t) ==
    [param    |-> [p EXCEPT !.last_resolved = t, !.request = 0],
     rep_time |-> IF \E i \in 1..Len(p.list) : p.list[i].error_code # 0
                  THEN N2N_RESOLVE_INTERVAL \div 10
                  ELSE N2N_RESOLVE_INTERVAL]

WorkerFinish ==
    /\ UNCHANGED <<slotVars, tsVars, snVars, maskVars>>
    /\ worker.pc = "finish"
    /\ IF param_freed THEN WorkerLost("finish")
       ELSE LET r == resolve_finish(param, worker.now)
            IN  /\ param' = r.param
                /\ worker' = [worker EXCEPT !.pc = "unlock", !.rep_time = r.rep_time]
                /\ rs_call' = [op |-> "finish", freed |-> FALSE]
                /\ UNCHANGED <<param_freed, supernodes, reactor, rtime>>

\* line 302
WorkerUnlock ==
    /\ UNCHANGED <<slotVars, tsVars, snVars, maskVars>>
    /\ worker.pc = "unlock"
    /\ IF param_freed THEN WorkerLost("pthread_mutex_unlock")
       ELSE /\ \E m \in pthread_mutex_unlock(param.access, "worker") :
                   param' = [param EXCEPT !.access = m]
            /\ worker' = [worker EXCEPT !.pc = "sleep"]
            /\ rs_call' = [op |-> "pthread_mutex_unlock", freed |-> FALSE]
            /\ UNCHANGED <<param_freed, supernodes, reactor, rtime>>

(***************************************************************************)
(* resolve_check and resolve_cancel_thread, on the reactor's thread.       *)
(***************************************************************************)
\* line 376
CheckDue(p, requires_resolution, t) ==
    t - p.last_checked > p.check_interval \/ requires_resolution # 0

\* resolve_check that notes the time of the check before it tries the lock
resolve_check_try_notes_time(p, requires_resolution, t) ==
    IF CheckDue(p, requires_resolution, t)
    THEN {[locked |-> r.ret = 0, ret |-> requires_resolution,
           param  |-> [p EXCEPT !.access = r.m, !.last_checked = t]] :
              r \in pthread_mutex_trylock(p.access, "reactor")}
    ELSE {[locked |-> FALSE, ret |-> requires_resolution, param |-> p]}

\* lines 364 to 378: resolve_check up to the try-lock; locked: the lock was
\* taken, otherwise the function returns ret
resolve_check_try(p, requires_resolution, t) ==
    IF CheckDue(p, requires_resolution, t)
    THEN {[locked |-> r.ret = 0, ret |-> requires_resolution,
           param  |-> [p EXCEPT !.access = r.m]] :
              r \in pthread_mutex_trylock(p.access, "reactor")}
    ELSE {[locked |-> FALSE, ret |-> requires_resolution, param |-> p]}

\* line 386 for every entry of the list
RECURSIVE CopySocks(_, _, _)
CopySocks(list, i, socks) ==
    IF i > Len(list) THEN socks
    ELSE CopySocks(list, i + 1, [socks EXCEPT ![list[i].org_sock] = list[i].sock])

\* resolve_check with the lock taken that leaves check_interval alone
resolve_check_locked_keeps_interval(p, socks, requires_resolution, t) ==
    LET p1 == IF p.changed # 0 THEN [p EXCEPT !.changed = 0] ELSE p
        s1 == IF p.changed # 0 THEN CopySocks(p.list, 1, socks) ELSE socks
        p2 == IF requires_resolution # 0 THEN [p1 EXCEPT !.request = 1] ELSE p1
    IN  [ret        |-> IF requires_resolution # 0 THEN 0 ELSE requires_resolution,
         supernodes |-> s1,
         param      |-> [p2 EXCEPT !.last_checked = t]]

\* lines 379 to 405: resolve_check with the lock taken, up to the unlock
resolve_check_locked(p, socks, requires_resolution, t) ==
    LET p1 == IF p.changed # 0 THEN [p EXCEPT !.changed = 0] ELSE p
        s1 == IF p.changed # 0 THEN CopySocks(p.list, 1, socks) ELSE socks
        p2 == IF requires_resolution # 0 THEN [p1 EXCEPT !.request = 1] ELSE p1
        p3 == [p2 EXCEPT !.last_checked = t]
    IN  [ret        |-> IF requires_resolution # 0 THEN 0 ELSE requires_resolution,
         supernodes |-> s1,
         param      |-> [p3 EXCEPT !.check_interval =
                            IF p3.request # 0
                            THEN N2N_RESOLVE_CHECK_INTERVAL \div 10
                            ELSE N2N_RESOLVE_CHECK_INTERVAL]]

\* resolve_check(param, requires_resolution, now) up to line 378
ResolveCheck ==
    /\ UNCHANGED <<slotVars, tsVars, snVars, maskVars>>
    /\ reactor.pc = "run"
    /\ \E requires_resolution \in {0, 1} :
       \E r \in resolve_check_try(param, requires_resolution, rtime) :
           /\ param' = r.param
           /\ reactor' = IF r.locked
                         THEN [pc |-> "locked", now |-> rtime,
                               requires_resolution |-> requires_resolution]
                         ELSE reactor
           /\ rs_call' = [op |-> "resolve_check_try", locked |-> r.locked,
                          requires_resolution |-> requires_resolution,
                          ret |-> r.ret,
                          due |-> CheckDue(param, requires_resolution, rtime)]
    /\ UNCHANGED <<param_freed, supernodes, worker, rtime>>

\* resolve_check from line 379 to its return
ResolveCheckLocked ==
    /\ UNCHANGED <<slotVars, tsVars, snVars, maskVars>>
    /\ reactor.pc = "locked"
    /\ LET r == resolve_check_locked(param, supernodes,
                                     reactor.requires_resolution, reactor.now)
       IN  /\ \E m \in pthread_mutex_unlock(r.param.access, "reactor") :
                  param' = [r.param EXCEPT !.access = m]
           /\ supernodes' = r.supernodes
           /\ rs_call' = [op |-> "resolve_check", locked |-> TRUE,
                          requires_resolution |-> reactor.requires_resolution,
                          ret |-> r.ret, due |-> TRUE]
    /\ reactor' = [reactor EXCEPT !.pc = "run"]
    /\ UNCHANGED <<param_freed, worker, rtime>>

\* resolve_cancel_thread(param), lines 356 and 357
ResolveCancelThread ==
    /\ UNCHANGED <<slotVars, tsVars, snVars, maskVars>>
    /\ reactor.pc = "run"
    /\ worker' = [worker EXCEPT !.cancel = TRUE]
    /\ param_freed' = TRUE
    /\ reactor' = [reactor EXCEPT !.pc = "done"]
    /\ rs_call' = [op |-> "resolve_cancel_thread", freed |-> FALSE]
    /\ UNCHANGED <<param, supernodes, rtime>>

\* the clock moves on
ResolveTick ==
    /\ UNCHANGED <<slotVars, tsVars, snVars, maskVars>>
    /\ \E t \in ResolveTimes :
           /\ t > rtime
           /\ rtime' = t
    /\ rs_call' = [op |-> "time"]
    /\ UNCHANGED <<param, param_freed, supernodes, worker, reactor>>

(***************************************************************************)
(* The parts that are not running.                                         *)
(***************************************************************************)
Epoch == [tv_sec |-> <<0, 0>>, tv_usec |-> 0]

TsIdle ==
    /\ clock = [tod |-> Epoch, ticks |-> {}]
    /\ previously_issued_time_stamp = U64Zero
    /\ previous_stamp = U64Zero
    /\ ts_call = [op |-> "none"]

SnIdle ==
    /\ sn_list = <<>>
    /\ next_peer = 1
    /\ sn_call = [op |-> "none"]

MaskIdle == mask_call = [op |-> "none"]

RsIdle ==
    /\ param = ParamZero
    /\ param_freed = FALSE
    /\ supernodes = <<>>
    /\ worker = WorkerUnborn
    /\ reactor = ReactorStart
    /\ rtime = 0
    /\ rs_call = [op |-> "none"]

(***************************************************************************)
(* Spec: any sequence of library calls on a pool of ApiSlots slots, with   *)
(* the clock running.  The clients send a bare end of header, in one or    *)
(* two pieces.                                                             *)
(***************************************************************************)
ApiEnv ==
    [reqs      |-> {EndOfHeader},
     replies   |-> {[header |-> <<"h">>, body |-> <<"b">>]},
     chunks    |-> {2, 4},
     faults    |-> {"EWOULDBLOCK", "ECONNRESET", "FIN"},
     listeners |-> SLOTS_LISTEN,
     times     |-> {0, 60, 61}]

Init == SlotsInit(ApiSlots, ApiEnv) /\ TsIdle /\ SnIdle /\ MaskIdle /\ RsIdle

Spec == Init /\ [][Next]_vars

(***************************************************************************)
(* SpecPool: the reactor on a pool of PoolSize slots that fills up: the    *)
(* requests arrive whole and the clock stands still.                       *)
(***************************************************************************)
PoolEnv ==
    [reqs      |-> {EndOfHeader},
     replies   |-> {[header |-> <<"h">>, body |-> <<"b">>]},
     chunks    |-> {4},
     faults    |-> {"EWOULDBLOCK", "ECONNRESET", "FIN"},
     listeners |-> SLOTS_LISTEN,
     times     |-> {0}]

InitPool == SlotsInit(PoolSize, PoolEnv) /\ TsIdle /\ SnIdle /\ MaskIdle /\ RsIdle

NextPool ==
    \/ SlotsListen
    \/ SlotsFdset
    \/ SlotsFdsetLoop
    \/ SlotsAccept
    \/ StageReply
    \/ ConnClose

SpecPool == InitPool /\ [][NextPool]_vars

(***************************************************************************)
(* The pool of SpecPool with the sweeps logged: what a sweep was given and *)
(* which slots it called conn_read and conn_write on.                      *)
(***************************************************************************)
NextSweep ==
    \/ SlotsListen
    \/ SlotsFdset
    \/ SlotsFdsetLoopLogged
    \/ SlotsAccept
    \/ StageReply
    \/ ConnClose

SpecSweep == InitPool /\ [][NextSweep]_vars

(***************************************************************************)
(* SpecFraming: requests with and without a Content-Length header, read    *)
(* by conn_read in pieces of any size.                                     *)
(***************************************************************************)
\* "Content-Length: " and the digits of a length
LengthHeader(digits) == ContentLength \o <<SP>> \o digits

\* 4294967296 == 2^32
TwoTo32Digits == <<"4", "2", "9", "4", "9", "6", "7", "2", "9", "6">>

\* a request: its header, the body length it declares (-1: none; `huge` when
\* the length does not fit 31 bits) and the body it sends
FramingReqs ==
    {[header |-> EndOfHeader, n |-> -1, huge |-> FALSE, body |-> <<>>],
     [header |-> <<CR, LF, CR>> \o EndOfHeader, n |-> -1, huge |-> FALSE,
      body |-> <<"x">>],
     [header |-> LengthHeader(<<"0">>) \o EndOfHeader, n |-> 0, huge |-> FALSE,
      body |-> <<>>],
     [header |-> LengthHeader(<<"2">>) \o EndOfHeader, n |-> 2, huge |-> FALSE,
      body |-> <<"a", "b">>],
     [header |-> LengthHeader(TwoTo32Digits) \o EndOfHeader, n |-> 0, huge |-> TRUE,
      body |-> <<"a">>]}

FramingEnv ==
    [reqs      |-> {r.header \o r.body : r \in FramingReqs},
     replies   |-> {[header |-> <<"h">>, body |-> <<>>]},
     chunks    |-> 1..MaxChunk,
     faults    |-> {"EWOULDBLOCK"},
     listeners |-> 1,
     times     |-> {0}]

InitFraming == SlotsInit(ApiSlots, FramingEnv) /\ TsIdle /\ SnIdle /\ MaskIdle /\ RsIdle

NextFraming ==
    \/ SlotsListen
    \/ SlotsAccept
    \/ ConnRead

SpecFraming == InitFraming /\ [][NextFraming]_vars

(***************************************************************************)
(* SpecOverflow: clients that send more bytes than a request buffer can    *)
(* hold, and never an end of header, to a reactor with PoolSize slots.     *)
(***************************************************************************)
OverflowEnv ==
    [reqs      |-> {[i \in 1..(RequestMax + 1) |-> "x"]},
     replies   |-> {[header |-> <<"h">>, body |-> <<>>]},
     chunks    |-> {16, 32},
     faults    |-> {"EWOULDBLOCK"},
     listeners |-> 1,
     times     |-> {0}]

InitOverflow == SlotsInit(PoolSize, OverflowEnv) /\ TsIdle /\ SnIdle /\ MaskIdle /\ RsIdle

NextOverflow ==
    \/ SlotsListen
    \/ SlotsFdset
    \/ SlotsFdsetLoop
    \/ ConnRead

SpecOverflow == InitOverflow /\ [][NextOverflow]_vars

(***************************************************************************)
(* SpecPipeline: clients that send a second request right behind the first *)
(* to a reactor with ApiSlots slots; the replies have a header and a body  *)
(* of two bytes each and leave in pieces of any size.  select() reports a  *)
(* connection readable only when bytes have arrived.                       *)
(***************************************************************************)
PipelineEnv ==
    [reqs      |-> {EndOfHeader \o EndOfHeader},
     replies   |-> {[header |-> <<"H", "h">>, body |-> <<"B", "b">>]},
     chunks    |-> {4},
     faults    |-> {},
     listeners |-> 1,
     times     |-> {0}]

InitPipeline == SlotsInit(ApiSlots, PipelineEnv) /\ TsIdle /\ SnIdle /\ MaskIdle /\ RsIdle

NextPipeline ==
    \/ SlotsListen
    \/ SlotsFdset
    \/ SlotsFdsetLoop
    \/ StageReply
    \/ ConnWrite

SpecPipeline == InitPipeline /\ [][NextPipeline]_vars

(***************************************************************************)
(* SpecStamp: time_stamp() called again and again while the clock moves    *)
(* on or stands still.                                                     *)
(***************************************************************************)
SlotsIdle == SlotsInit(ApiSlots, ApiEnv)

\* the times of day of SpecStamp
StampTicks ==
    {[tv_sec |-> <<0, 1>>, tv_usec |-> 0],
     [tv_sec |-> <<0, 1>>, tv_usec |-> 1],
     [tv_sec |-> <<0, 2>>, tv_usec |-> 0]}

InitStamp ==
    /\ SlotsIdle
    /\ SnIdle /\ MaskIdle
    /\ RsIdle
    /\ clock = [tod |-> [tv_sec |-> <<0, 1>>, tv_usec |-> 0], ticks |-> StampTicks]
    /\ previously_issued_time_stamp = U64Zero
    /\ previous_stamp = U64Zero
    /\ ts_call = [op |-> "none"]

TimeStamp == TimeStampCall(MaxBurst)

NextStamp ==
    \/ ClockTick
    \/ TimeStamp

SpecStamp == InitStamp /\ [][NextStamp]_vars

(***************************************************************************)
(* SpecVerify: stamps are verified against one previous stamp, which       *)
(* starts at any of a few values.                                          *)
(***************************************************************************)
\* the time of day of SpecVerify, and the stamp without counter it stands for
VerifyTod == [tv_sec |-> <<0, 32>>, tv_usec |-> 16]

VerifyBase == MicroSeconds(VerifyTod)

VerifyTicks == {VerifyTod, [VerifyTod EXCEPT !.tv_usec = 32]}

\* the stamps that arrive: at the time of day, with a counter, at the edge
\* of the jitter, with the counter-only flag, with that flag and 16 times
\* the jitter behind, a frame ahead, 2^63 ahead
VerifyStamps ==
    {VerifyBase,
     U64Add(VerifyBase, <<0, 0, 0, 16>>),
     U64Sub(VerifyBase, TIME_STAMP_JITTER),
     U64Add(U64Sub(VerifyBase, TIME_STAMP_JITTER), <<0, 0, 0, 16>>),
     U64Add(VerifyBase, U64One),
     U64Add(U64Sub(VerifyBase, U64Shl(TIME_STAMP_JITTER, 4)), U64One),
     U64Add(VerifyBase, TIME_STAMP_FRAME),
     U64Add(VerifyBase, INT64_MIN)}

\* the values *previous_stamp starts with
VerifyPrevious ==
    {U64Zero, VerifyBase, U64Not(U64Zero),
     U64Add(U64Add(VerifyBase, INT64_MIN), <<0, 0, 0, 32>>)}

\* the values previously_issued_time_stamp starts with: nothing issued, or
\* the counter-only stamp that follows an overflow of the counter
VerifyIssued == {U64Zero, <<0, 32, 0, 4097>>}

InitVerify ==
    /\ SlotsIdle
    /\ SnIdle /\ MaskIdle
    /\ RsIdle
    /\ clock = [tod |-> VerifyTod, ticks |-> VerifyTicks]
    /\ previously_issued_time_stamp \in VerifyIssued
    /\ previous_stamp \in VerifyPrevious
    /\ ts_call = [op |-> "none"]

Verify == VerifyCall(VerifyStamps, VerifyBurst)

VerifyFresh == VerifyFreshCall(VerifyBurst)

NextVerify ==
    \/ ClockTick
    \/ Verify
    \/ VerifyFresh

SpecVerify == InitVerify /\ [][NextVerify]_vars

(***************************************************************************)
(* SpecSn: any sequence of add_sn_to_list_by_mac_or_sock calls on a list   *)
(* that starts empty.                                                      *)
(***************************************************************************)
InitSn == SlotsIdle /\ TsIdle /\ SnIdle /\ MaskIdle /\ RsIdle

NextSn == AddSn

SpecSn == InitSn /\ [][NextSn]_vars

(***************************************************************************)
(* SpecMask: prefix lengths turned into masks and back.                    *)
(***************************************************************************)
InitMask == SlotsIdle /\ TsIdle /\ SnIdle /\ MaskIdle /\ RsIdle

NextMask ==
    \/ Bitlen2Mask
    \/ Mask2Bitlen
    \/ Mask2BitlenOf

SpecMask == InitMask /\ [][NextMask]_vars

(***************************************************************************)
(* SpecResolve: the reactor creates the resolver thread for MaxEntries     *)
(* supernodes with a name, calls resolve_check as the clock moves on, and  *)
(* cancels the thread; the thread runs beside it.                          *)
(***************************************************************************)
InitResolve ==
    /\ SlotsIdle
    /\ TsIdle
    /\ SnIdle /\ MaskIdle
    /\ param = ParamZero
    /\ param_freed = FALSE
    /\ supernodes = [i \in 1..MaxEntries |-> FirstSock(ResolveNames[i])]
    /\ worker = WorkerUnborn
    /\ reactor = ReactorStart
    /\ rtime = CHOOSE t \in ResolveTimes : \A u \in ResolveTimes : t <= u
    /\ rs_call = [op |-> "none"]

NextResolve ==
    \/ ResolveCreateThread
    \/ ResolveMutexInit
    \/ WorkerWake
    \/ WorkerLock
    \/ WorkerTest
    \/ WorkerResolve
    \/ WorkerFinish
    \/ WorkerUnlock
    \/ ResolveCheck
    \/ ResolveCheckLocked
    \/ ResolveCancelThread
    \/ ResolveTick

SpecResolve == InitResolve /\ [][NextResolve]_vars

(***************************************************************************)
(* SpecResolveFair: the resolver at work on FairEntries supernodes.        *)
(* resolve_create_thread has returned, the worker is in its first sleep,   *)
(* the thread is not cancelled and the clock stands still: the first pass  *)
(* is the one that is due at the start, every later one answers a request. *)
(* The worker is scheduled again and again: each of its steps              *)
(* is taken once it can be, and its pthread_mutex_lock returns if the      *)
(* mutex is free again and again; the reactor, once it has the mutex,      *)
(* runs resolve_check to its return.                                       *)
(***************************************************************************)
InitResolveFair ==
    /\ SlotsIdle
    /\ TsIdle
    /\ SnIdle /\ MaskIdle
    /\ supernodes = [i \in 1..FairEntries |-> FirstSock(ResolveNames[i])]
    /\ param = [resolve_create_param(supernodes, SubSeq(ResolveNames, 1, FairEntries))
                   EXCEPT !.access = pthread_mutex_init(@)]
    /\ param_freed = FALSE
    /\ worker = [WorkerUnborn EXCEPT !.pc = "sleep"]
    /\ reactor = [ReactorStart EXCEPT !.pc = "run"]
    /\ rtime = CHOOSE t \in ResolveTimes : \A u \in ResolveTimes : t <= u
    /\ rs_call = [op |-> "pthread_mutex_init"]

\* a step of resolve_thread other than the wait for the mutex
WorkerRuns ==
    \/ WorkerWake
    \/ WorkerTest
    \/ WorkerResolve
    \/ WorkerFinish
    \/ WorkerUnlock

NextResolveFair ==
    \/ WorkerRuns
    \/ WorkerLock
    \/ ResolveCheck
    \/ ResolveCheckLocked

\* the worker is at a step other than the wait for the mutex: WorkerRuns
\* can be taken, and changes worker
WorkerCanRun == worker.pc \in {"sleep", "test", "resolve", "finish", "unlock"}

\* WF_vars(WorkerRuns), with ENABLED <<WorkerRuns>>_vars written out as
\* WorkerCanRun
WorkerRunsFair == []<>(~WorkerCanRun) \/ []<><<WorkerRuns>>_vars

SpecResolveFair ==
    /\ InitResolveFair
    /\ [][NextResolveFair]_vars
    /\ WorkerRunsFair
    /\ SF_vars(WorkerLock)
    /\ WF_vars(ResolveCheckLocked)

(***************************************************************************)
(* The connection slots: properties.                                       *)
(***************************************************************************)
\* C1 as stated: in every reachable state each slot has fd == -1 if and
\* only if its state is CONN_EMPTY.
C1_FdIffEmpty ==
    \A i \in SlotIds(slots) :
        (slots.conn[i].fd = NoFd) <=> (slots.conn[i].state = CONN_EMPTY)

\* C1 amended: with conn_read and conn_write called on open slots only, a
\* slot with fd == -1 is in CONN_EMPTY (an open slot may be in CONN_EMPTY
\* too).
C1_ClosedIsEmpty ==
    \A i \in SlotIds(slots) :
        slots.conn[i].fd = NoFd => slots.conn[i].state = CONN_EMPTY

\* the idle sweep has closed a slot
C1_Witness ==
    /\ last_call.op = "slots_closeidle"
    /\ last_call.ret >= 1
    /\ \E i \in SlotIds(slots) : slots.conn[i].fd = NoFd

\* C2: after slots_accept, slots_fdset, slots_closeidle and slots_fdset_loop
\* return, nr_open is the number of slots with fd != -1.
C2_NrOpenAccurate ==
    (/\ ~aborted
     /\ last_call.op \in {"slots_accept", "slots_fdset", "slots_closeidle",
                          "slots_fdset_loop"})
    => slots.nr_open = Cardinality(OpenSlots(slots))

\* TRUE if the byte string holds CR LF CR LF
HasTerminator(str) ==
    \E k \in 1..(Len(str) - 3) : SubSeq(str, k, k + 3) = EndOfHeader

\* the request the client of slot i sends: what has been read and what is
\* still to come
WholeRequest(i) ==
    slots.conn[i].request.str \o kernel[slots.conn[i].fd].rx

\* the last call was a conn_read that took bytes into slot i
HasRead(i) ==
    /\ last_call.op = "conn_read"
    /\ last_call.slot = i
    /\ last_call.size = 1

\* C3: a request without Content-Length, read in pieces: after each read
\* the slot is CONN_READY if the bytes read so far hold CR LF CR LF, and
\* CONN_READING if they do not.
C3_ReadyAtTerminator ==
    \A i \in SlotIds(slots) :
        \A r \in FramingReqs :
            (HasRead(i) /\ r.n = -1 /\ WholeRequest(i) = r.header \o r.body)
            => slots.conn[i].state =
                   IF HasTerminator(slots.conn[i].request.str)
                   THEN CONN_READY ELSE CONN_READING

\* a read has delivered the last LF of the terminator, and an earlier read
\* of the same request has not
C3_Witness ==
    \E i \in SlotIds(slots) :
        /\ HasRead(i)
        /\ WholeRequest(i) = <<CR, LF, CR>> \o EndOfHeader \o <<"x">>
        /\ Len(slots.conn[i].request.str) = 7
        /\ slots.conn[i].state = CONN_READY

\* C4: a request with Content-Length: N, read in pieces: after each read
\* the slot is CONN_READY if the bytes read so far are at least the header
\* and N more, and CONN_READING if not; rd_pos is 0 when it is CONN_READY.
C4_ReadyAtLength ==
    \A i \in SlotIds(slots) :
        \A r \in FramingReqs :
            (HasRead(i) /\ r.n >= 0 /\ WholeRequest(i) = r.header \o r.body)
            => /\ slots.conn[i].state =
                      IF ~r.huge /\ Len(slots.conn[i].request.str)
                                       >= Len(r.header) + r.n
                      THEN CONN_READY ELSE CONN_READING
               /\ slots.conn[i].state = CONN_READY
                      => slots.conn[i].request.rd_pos = U32Zero

ListenFds(s) == {s.listen[i] : i \in DOMAIN s.listen} \ {NoFd}

PoolFull(s) == OpenSlots(s) = SlotIds(s)

C6_StrictlyIncreasing ==
    [][(/\ ts_call.op = "time_stamp"
        /\ ts_call'.op = "time_stamp"
        /\ ts_call'.flip # ts_call.flip)
       => U64Lt(previously_issued_time_stamp, previously_issued_time_stamp')
      ]_vars

\* a step of time_stamp_verify_and_update
VerifyStep == ts_call'.op = "verify" /\ clock' = clock

\* C7 as stated: for every previous stamp and either allow_jitter a stamp
\* fresh from time_stamp() is accepted, and the previous stamp is then at
\* least that stamp.
C7_FreshAccepted ==
    [][(VerifyStep /\ ts_call'.fresh)
       => /\ ts_call'.ret = 1
          /\ ~U64Lt(previous_stamp', ts_call'.stamp)
      ]_vars

\* TIME_STAMP_JITTER << 8, the largest allowance line 805 adds
MaxJitter == U64Shl(TIME_STAMP_JITTER, 8)

\* v is below the stamp, by so little that neither stamp - v nor the sum of
\* line 805 leaves the range of int64_t
BelowInRange(v, stamp) ==
    /\ U64Lt(v, stamp)
    /\ ~S64Negative(U64Sub(stamp, v))
    /\ ~S64Negative(U64Add(U64Sub(stamp, v), MaxJitter))

\* C7 amended: for every previous stamp below the fresh stamp (in the range
\* of int64_t) and either allow_jitter the fresh stamp is accepted, and the
\* previous stamp is then that stamp.
C7_FreshAcceptedAbove ==
    [][(VerifyStep /\ ts_call'.fresh /\ BelowInRange(previous_stamp, ts_call'.stamp))
       => /\ ts_call'.ret = 1
          /\ previous_stamp' = ts_call'.stamp
      ]_vars

\* a fresh stamp has been accepted after another one
C7_Witness ==
    /\ ts_call.op = "verify"
    /\ ts_call.fresh
    /\ ts_call.allow_jitter
    /\ ts_call.ret = 1
    /\ previous_stamp = ts_call.stamp
    /\ CounterOf(previous_stamp) >= 2

\* the distance of two stamps
Distance(a, b) == IF U64Lt(a, b) THEN U64Sub(b, a) ELSE U64Sub(a, b)

\* C8: without jitter a stamp within TIME_STAMP_FRAME of time_stamp() is
\* accepted if and only if it is greater than the previous stamp, and a
\* rejection leaves the previous stamp as it was.
C8_AcceptIffHigher ==
    [][(/\ VerifyStep
        /\ ts_call'.with_previous
        /\ ~ts_call'.allow_jitter
        /\ U64Lt(Distance(ts_call'.stamp, previously_issued_time_stamp'),
                 TIME_STAMP_FRAME))
       => /\ ts_call'.ret = 1 <=> U64Lt(previous_stamp, ts_call'.stamp)
          /\ ts_call'.ret = 0 => previous_stamp' = previous_stamp
      ]_vars

\* C9: a call that accepts makes the previous stamp the higher of the
\* previous stamp and the stamp, a call that rejects leaves it; it never
\* decreases.
C9_NeverDecreases ==
    [][(VerifyStep /\ ts_call'.with_previous)
       => /\ previous_stamp' =
                 IF ts_call'.ret = 1 /\ U64Lt(previous_stamp, ts_call'.stamp)
                 THEN ts_call'.stamp ELSE previous_stamp
          /\ ~U64Lt(previous_stamp', previous_stamp)
      ]_vars

\* a stamp below the previous stamp has been accepted for its jitter
C9_Witness ==
    /\ ts_call.op = "verify"
    /\ ts_call.with_previous
    /\ ts_call.allow_jitter
    /\ ts_call.ret = 1
    /\ U64Lt(ts_call.stamp, previous_stamp)
    /\ U64Lt(Distance(ts_call.stamp, previous_stamp), TIME_STAMP_JITTER)


(***************************************************************************)
(* The supernode list: properties.                                         *)
(***************************************************************************)
\* the places in the list of the records that hold mac
HoldersOf(mac) == {i \in 1..Len(sn_list) : sn_list[i].mac_addr = mac}

\* C10 as stated: after add_sn_to_list_by_mac_or_sock with SN_ADD and a MAC
\* that is not null the record returned holds the MAC, HASH_FIND_PEER finds
\* that record under the MAC, and no other record holds it; no MAC that is
\* not null is held by two records.
C10_MacUnique ==
    /\ (sn_call.op = "add_sn" /\ sn_call.skip_add = SN_ADD /\ sn_call.mac # null_mac)
       => /\ sn_call.peer # NullPeer
          /\ HASH_FIND_PEER(sn_list, sn_call.mac) # 0
          /\ sn_list[HASH_FIND_PEER(sn_list, sn_call.mac)].id = sn_call.peer
          /\ HoldersOf(sn_call.mac) = {HASH_FIND_PEER(sn_list, sn_call.mac)}
    /\ \A mac \in 1..MaxMacs : Cardinality(HoldersOf(mac)) <= 1

\* a record found by its socket has been given the MAC of the call, with
\* another record in the list
\* C10 amended: after add_sn_to_list_by_mac_or_sock with SN_ADD and a MAC
\* that is not null, either a record is returned, which holds the MAC, is
\* the one HASH_FIND_PEER finds under the MAC and is the only one to hold
\* it, or NULL is returned, peer_info_malloc having returned NULL, and no
\* record holds the MAC; no MAC that is not null is held by two records.
C10_MacUniqueIfReturned ==
    /\ (sn_call.op = "add_sn" /\ sn_call.skip_add = SN_ADD /\ sn_call.mac # null_mac)
       => IF sn_call.peer # NullPeer
          THEN /\ HASH_FIND_PEER(sn_list, sn_call.mac) # 0
               /\ sn_list[HASH_FIND_PEER(sn_list, sn_call.mac)].id = sn_call.peer
               /\ HoldersOf(sn_call.mac) = {HASH_FIND_PEER(sn_list, sn_call.mac)}
          ELSE /\ sn_call.malloc = NullPeer
               /\ HoldersOf(sn_call.mac) = {}
    /\ \A mac \in 1..MaxMacs : Cardinality(HoldersOf(mac)) <= 1

C10_Witness ==
    /\ sn_call.op = "add_sn"
    /\ sn_call.skip_add = SN_ADD
    /\ sn_call.mac # null_mac
    /\ Len(sn_list) >= 2
    /\ sn_list[Len(sn_list)].id = sn_call.peer
    /\ sn_call.peer < next_peer - 1

(***************************************************************************)
(* The resolver: properties.                                               *)
(***************************************************************************)
\* the worker has just resolved the entry at place i (lines 278 to 284)
Resolved(i) ==
    /\ worker.pc = "resolve"
    /\ worker.i = i
    /\ worker'.i = i + 1
    /\ rs_call'.op = "supernode2sock"

\* C11: in a pass of the worker, every entry whose supernode2sock fails has
\* its error_code set non-zero and its shadow socket (family, port, addr)
\* as it was before.
C11_FailureKeepsShadow ==
    [][\A i \in 1..Len(param.list) :
          (Resolved(i) /\ param'.list[i].error_code # 0)
          => param'.list[i].sock = param.list[i].sock
      ]_vars

\* the sockets a successful resolution of a name gives
ResolvedSocks(name) ==
    {r.sn : r \in {x \in {supernode2sock(ZeroSock, name, l) :
                             l \in LookupOutcomes(strtok(name, 1).token)} :
                      x.ret = 0}}

\* C12: under every interleaving of worker passes and resolve_check calls a
\* live supernode socket is only ever overwritten with the result of a
\* successful resolution of its name: it never becomes AF_INVALID.
C12_LiveFromSuccess ==
    [][\A i \in 1..Len(supernodes) :
          supernodes'[i] # supernodes[i]
          => supernodes'[i] \in ResolvedSocks(ResolveNames[i])
      ]_vars

\* the worker is between its lock and its unlock, lines 273 to 302
WorkerInside == worker.pc \in {"test", "resolve", "finish", "unlock"}

\* resolve_check is between its try-lock and its unlock, lines 379 to 408
ReactorInside == reactor.pc = "locked"

\* C13: the worker and resolve_check touch the shared fields of the block
\* only while holding param->access, and they are never both inside their
\* critical sections.
C13_MutualExclusion ==
    /\ ~(WorkerInside /\ ReactorInside)
    /\ (WorkerInside /\ ~param_freed) => param.access.owner = "worker"
    /\ ReactorInside => param.access.owner = "reactor"

\* C14: the block is freed only after the worker has stopped: the worker
\* never takes a step that reads or writes the block after free(param).
C14_FreedAfterStop ==
    /\ worker.pc # "lost"
    /\ param_freed => worker.pc \in {"unborn", "ended"}

\* a resolve_check that was due has just found the mutex taken
TryLockFailed ==
    /\ reactor.pc = "run"
    /\ rs_call'.op = "resolve_check_try"
    /\ rs_call'.due
    /\ ~rs_call'.locked

C16_NoAbort == ~aborted

\* conn_read has just returned on slot i after a read() that gave no bytes
ReadFailed(i) ==
    /\ last_call'.op = "conn_read"
    /\ last_call'.slot = i
    /\ last_call'.size <= 0
    /\ now' = now

\* C17: conn_read leaves the slot in CONN_EMPTY after a read that would
\* block, in CONN_ERROR after any other failed read and in CONN_CLOSED
\* after a read of zero bytes; the bytes of the request buffer and the
\* activity time are as before in all three cases.
C17_ReadOutcomes ==
    [][\A i \in SlotIds(slots) :
          ReadFailed(i)
          => /\ slots'.conn[i].state =
                    IF last_call'.size = 0 THEN CONN_CLOSED
                    ELSE IF last_call'.errno = "EWOULDBLOCK" THEN CONN_EMPTY
                    ELSE CONN_ERROR
             /\ slots'.conn[i].request.str = slots.conn[i].request.str
             /\ slots'.conn[i].activity = slots.conn[i].activity
             /\ slots'.conn[i].fd = slots.conn[i].fd
      ]_vars

\* a read would block on a slot that holds half a request, after the clock
\* has moved on since the bytes came in
C17_Witness ==
    /\ last_call.op = "conn_read"
    /\ last_call.size = -1
    /\ last_call.errno = "EWOULDBLOCK"
    /\ slots.conn[last_call.slot].state = CONN_EMPTY
    /\ Len(slots.conn[last_call.slot].request.str) = 2
    /\ slots.conn[last_call.slot].activity = 60
    /\ now = 61

\* conn_write has just returned on slot i after a writev() that failed
WriteFailed(i) ==
    /\ last_call'.op \in {"conn_write", "staged"}
    /\ last_call'.slot = i
    /\ last_call'.sent = -1
    /\ now' = now

\* C18: when writev() fails in conn_write the slot stays in CONN_SENDING
\* with reply_sendpos as it was (would block) or goes to CONN_ERROR (any
\* other error): the reply is not taken as sent, and reply_sendpos does
\* not decrease.
C18_WriteFailure ==
    [][\A i \in SlotIds(slots) :
          WriteFailed(i)
          => /\ slots'.conn[i].state \in {CONN_SENDING, CONN_ERROR}
             /\ slots'.conn[i].state = CONN_SENDING
                => slots'.conn[i].reply_sendpos = slots.conn[i].reply_sendpos
             /\ slots'.conn[i].reply_sendpos >= slots.conn[i].reply_sendpos
      ]_vars

\* slots_fdset_loop has just gone through the slots
Swept ==
    /\ pc = "polled"
    /\ pc' = "idle"
    /\ last_call'.op = "slots_fdset_loop"
    /\ last_call'.ret >= 0
    /\ ~aborted'

\* C19: a sweep of slots_fdset_loop that goes through the slots closes
\* every slot that is in CONN_ERROR or CONN_CLOSED and resets it to the
\* empty slot; after the sweep no slot is in CONN_ERROR or CONN_CLOSED.
C19_SweepReaps ==
    [][Swept
       => \A i \in SlotIds(slots) :
             /\ slots.conn[i].state \in {CONN_ERROR, CONN_CLOSED}
                => /\ slots'.conn[i] = conn_zero(slots.conn[i])
                   /\ slots.conn[i].fd \notin DOMAIN kernel'
             /\ slots'.conn[i].state \notin {CONN_ERROR, CONN_CLOSED}
      ]_vars

\* the slots slots_closeidle is to close at the time now
Idle(s) ==
    {i \in SlotIds(s) : s.conn[i].fd # NoFd /\ now - s.conn[i].activity > s.timeout}

KeepsFd(i) == slots'.conn[i].fd = slots.conn[i].fd

\* slot i has been reset for the next request
SlotReset(i) ==
    /\ slots'.conn[i].state = CONN_EMPTY
    /\ slots'.conn[i].reply_sendpos = 0
    /\ slots'.conn[i].request.str = <<>>

\* C21: a slot never holds two requests in flight: over a sweep of
\* slots_fdset_loop a slot that is in CONN_READY or CONN_SENDING and keeps
\* its connection keeps its state and the bytes of its request buffer,
\* unless the sweep sends the rest of the reply and resets the slot.
C21_OneRequestInFlight ==
    [][Swept
       => \A i \in SlotIds(slots) :
             slots.conn[i].state \in {CONN_READY, CONN_SENDING} /\ KeepsFd(i)
             => \/ /\ slots'.conn[i].state = slots.conn[i].state
                   /\ slots'.conn[i].request.str = slots.conn[i].request.str
                \/ slots.conn[i].state = CONN_SENDING /\ SlotReset(i)
      ]_vars

\* the 32 bit value whose top k bits are set and whose other bits are clear:
\* 2^32 - 2^(32 - k)
TopBits(k) ==
    IF k <= 16 THEN <<Two16 - 2 ^ (16 - k), 0>>
    ELSE <<Two16 - 1, Two16 - 2 ^ (32 - k)>>

\* C22: for every k in 0..32, bitlen2mask(k) is the 32 bit value whose top
\* k bits are set and whose other bits are clear (0 for k = 0, 0xFFFFFFFF
\* for k = 32), and mask2bitlen(bitlen2mask(k)) is k.
C22_MaskRoundTrip ==
    /\ mask_call.op \in {"bitlen2mask", "mask2bitlen"}
       => mask_call.mask = TopBits(mask_call.bitlen)
    /\ mask_call.op = "mask2bitlen" => mask_call.ret = mask_call.bitlen

\* the round trip of the longest prefix
C22_Witness ==
    /\ mask_call.op = "mask2bitlen"
    /\ mask_call.bitlen = MaskBits
    /\ mask_call.mask = <<Two16 - 1, Two16 - 1>>
    /\ mask_call.ret = MaskBits

\* conn_write has just returned on slot i after a writev() that took bytes
WriteSent(i) ==
    /\ last_call'.op \in {"conn_write", "staged"}
    /\ last_call'.slot = i
    /\ last_call'.sent >= 1
    /\ now' = now

\* the replies the call on slot i can be sending: the one the slot holds,
\* or the one the application stages with the call
RepliesOf(i) ==
    IF last_call'.op = "staged" THEN env.replies
    ELSE {[header |-> slots.conn[i].reply_header.str,
           body   |-> slots.conn[i].reply.str]}

\* C23: a reply with header H and body B, staged on a slot whose
\* reply_sendpos is 0, leaves in order whatever the sizes of the writes:
\* a conn_write call whose writev() takes sent >= 1 bytes writes the sent
\* bytes of H followed by B that come after the first reply_sendpos ones;
\* while bytes remain the slot is CONN_SENDING and reply_sendpos has
\* advanced by sent, never beyond |H| + |B|; on the write that takes the
\* last byte the slot is CONN_EMPTY with reply_sendpos 0, the request and
\* reply header buffers are empty and the fd is still open.
C23_WritesInOrder ==
    [][\A i \in SlotIds(slots) :
          (WriteSent(i) /\ (last_call'.op = "staged" => slots.conn[i].reply_sendpos = 0))
          => \E rep \in RepliesOf(i) :
                LET all == rep.header \o rep.body
                    pos == slots.conn[i].reply_sendpos
                    end == pos + last_call'.sent
                IN  /\ last_call'.bytes = SubSeq(all, pos + 1, end)
                    /\ end <= Len(all)
                    /\ end < Len(all)
                       => /\ slots'.conn[i].state = CONN_SENDING
                          /\ slots'.conn[i].reply_sendpos = end
                    /\ end = Len(all)
                       => /\ SlotReset(i)
                          /\ slots'.conn[i].reply_header.str = <<>>
                          /\ KeepsFd(i)
                          /\ slots'.conn[i].fd \in DOMAIN kernel'
      ]_vars

\* a reply whose header left in two writes, the second one taking the rest
\* of the header and the whole body
C23_Witness ==
    /\ last_call.op = "conn_write"
    /\ last_call.bytes = <<"h", "B", "b">>
    /\ slots.conn[last_call.slot].state = CONN_EMPTY
    /\ slots.conn[last_call.slot].fd # NoFd

\* resolve_check, due and with the mutex acquired, runs to its return
CheckReturns ==
    /\ reactor.pc = "locked"
    /\ reactor'.pc = "run"
    /\ rs_call'.op = "resolve_check"

\* every live socket is the shadow socket of its entry
LiveIsShadow(p, socks) ==
    \A i \in 1..Len(p.list) : socks[p.list[i].org_sock] = p.list[i].sock

\* C24: when resolve_check is due and acquires the mutex: if changed was
\* set, on return changed is 0 and every live socket equals its shadow
\* socket; if requires_resolution was not 0, request is 1 and the function
\* returns 0; if it was 0, the function returns 0 and request is as it
\* was; last_checked is now, and check_interval is
\* N2N_RESOLVE_CHECK_INTERVAL / 10 while request is set and
\* N2N_RESOLVE_CHECK_INTERVAL otherwise.
C24_CheckWithLock ==
    [][CheckReturns
       => /\ param.changed # 0
             => param'.changed = 0 /\ LiveIsShadow(param', supernodes')
          /\ reactor.requires_resolution # 0
             => param'.request = 1 /\ rs_call'.ret = 0
          /\ reactor.requires_resolution = 0
             => param'.request = param.request /\ rs_call'.ret = 0
          /\ param'.last_checked = reactor.now
          /\ param'.check_interval =
                IF param'.request # 0 THEN N2N_RESOLVE_CHECK_INTERVAL \div 10
                ELSE N2N_RESOLVE_CHECK_INTERVAL
      ]_vars

\* a check that found a change and was asked for a resolution: the new
\* address of the first supernode is live and the request is made
C24_Witness ==
    /\ rs_call.op = "resolve_check"
    /\ rs_call.requires_resolution = 1
    /\ param.request = 1
    /\ param.changed = 0
    /\ param.check_interval = N2N_RESOLVE_CHECK_INTERVAL \div 10
    /\ supernodes[1].addr = 2
    /\ LiveIsShadow(param, supernodes)

\* C25: after a pass of the worker, changed is set if the shadow socket of
\* any entry differs from its live socket; and whenever changed is 0 and
\* the mutex is free, every shadow socket equals its live socket.
C25_ChangedTracksShadow ==
    /\ (rs_call.op = "finish" /\ ~LiveIsShadow(param, supernodes))
       => param.changed # 0
    /\ (/\ reactor.pc = "run"
        /\ ~param_freed
        /\ param.changed = 0
        /\ param.access.owner = NoThread)
       => LiveIsShadow(param, supernodes)

\* the worker is in a pass over the list
InPass == worker.pc \in {"resolve", "finish"}

\* C26: a request made through resolve_check (request set to 1) is served:
\* with the worker scheduled fairly, the worker eventually ends a pass that
\* clears request.  The flag is cleared by nothing but the end of a pass
\* that went through every entry of the list and that stores its time in
\* last_resolved, and it is never set while a pass is under way, so the
\* pass that clears it began after it was set.
C26_RequestServed ==
    /\ (param.request = 1) ~> (rs_call.op = "finish" /\ param.request = 0)
    /\ [][(param.request = 1 /\ param'.request = 0)
           => /\ worker.pc = "finish"
              /\ worker'.pc = "unlock"
              /\ worker.i = Len(param.list) + 1
              /\ param'.last_resolved = worker.now
        ]_vars
    /\ [][(param.request = 0 /\ param'.request = 1) => ~InPass]_vars

\* a pass has just served a request: the last check left the short
\* interval that goes with a standing request, and the flag is down
C26_Witness ==
    /\ rs_call.op = "finish"
    /\ param.request = 0
    /\ param.check_interval = N2N_RESOLVE_CHECK_INTERVAL \div 10
    /\ param.last_resolved = worker.now

\* C27: the worker never writes a live socket: the live sockets change
\* only in resolve_check, on the reactor's thread, between its successful
\* pthread_mutex_trylock and its pthread_mutex_unlock; over every other
\* step, those of the worker among them, they stay as they are.
C27_LiveWrittenByCheck ==
    [][supernodes' # supernodes
       => /\ CheckReturns
          /\ worker' = worker
          /\ supernodes' = CopySocks(param.list, 1, supernodes)
      ]_vars

\* the worker has resolved the first supernode to its second address and
\* the live sockets are those the reactor started with
C27_Witness ==
    /\ rs_call.op = "supernode2sock"
    /\ param.list[1].sock.addr = 2
    /\ supernodes = [i \in 1..Len(supernodes) |-> FirstSock(ResolveNames[i])]

\* a stamp so far below 2^63 that no sum of the claim wraps around
Small(stamp) == stamp[1] < Two16 \div 4

\* C28: with allow_jitter set and a token within TIME_STAMP_FRAME of the
\* current time, the token is accepted if and only if
\* token > previous - TIME_STAMP_JITTER * f, where f is 8 when bit 0 of the
\* token is set and 1 when it is clear.
C28_JitterFactor ==
    [][(/\ VerifyStep
        /\ ts_call'.with_previous
        /\ ts_call'.allow_jitter
        /\ Small(ts_call'.stamp) /\ Small(previous_stamp)
        /\ U64Lt(Distance(ts_call'.stamp, previously_issued_time_stamp'),
                 TIME_STAMP_FRAME))
       => (ts_call'.ret = 1
           <=> U64Lt(previous_stamp,
                     U64Add(ts_call'.stamp,
                            U64Shl(TIME_STAMP_JITTER, 3 * (ts_call'.stamp[4] % 2)))))
      ]_vars

\* a call of time_stamp() has returned
StampStep == ts_call'.op = "time_stamp" /\ ts_call' # ts_call

\* bit 0 of a stamp
CounterOnly(stamp) == stamp[4] % 2 = 1

\* the stamp before this call has the time of day of the call in its bits
\* 12..63 and the highest counter its bits 4..11 can hold
CounterOverflows ==
    /\ <<previously_issued_time_stamp[1], previously_issued_time_stamp[2],
         previously_issued_time_stamp[3],
         previously_issued_time_stamp[4] - (previously_issued_time_stamp[4] % 4096)>>
       = MicroSeconds(clock.tod)
    /\ (previously_issued_time_stamp[4] % 4096) \div 16 = 255

\* C29: time_stamp() sets bit 0 of the stamp exactly when the counter
\* overflows its field while the high part is unchanged, and from then on
\* for good: a stamp issued after one with bit 0 set has bit 0 set, the
\* seconds in its high 32 bits and in bits 4..31 a counter, one above that
\* of the stamp before if the seconds are the same and 0 otherwise: no
\* microseconds.
C29_CounterOnlyForGood ==
    [][StampStep
       => /\ ~CounterOnly(previously_issued_time_stamp)
             => /\ CounterOnly(previously_issued_time_stamp') <=> CounterOverflows
                /\ CounterOverflows
                   => /\ previously_issued_time_stamp'[3] = 0
                      /\ previously_issued_time_stamp'[4] = 4097
          /\ CounterOnly(previously_issued_time_stamp)
             => /\ CounterOnly(previously_issued_time_stamp')
                /\ previously_issued_time_stamp'[4] % 16 = 1
                /\ previously_issued_time_stamp'[1] = clock.tod.tv_sec[1]
                /\ previously_issued_time_stamp'[2] = clock.tod.tv_sec[2]
                /\ CounterOf(previously_issued_time_stamp') =
                      IF /\ previously_issued_time_stamp[1] = clock.tod.tv_sec[1]
                         /\ previously_issued_time_stamp[2] = clock.tod.tv_sec[2]
                      THEN CounterOf(previously_issued_time_stamp) + 1
                      ELSE 0
      ]_vars

\* a counter-only stamp issued in the second after the one of the overflow,
\* at a time of day with microseconds
C29_Witness ==
    /\ ts_call.op = "time_stamp"
    /\ CounterOnly(previously_issued_time_stamp)
    /\ previously_issued_time_stamp[2] = 2
    /\ clock.tod = [tv_sec |-> <<0, 2>>, tv_usec |-> 0]

\* the call that has just returned had a MAC that is not null and not in
\* the list, and the socket of the record at place i, the first with it
FoundBySock(i) ==
    /\ sn_call'.op = "add_sn"
    /\ sn_call'.mac # null_mac
    /\ HASH_FIND_PEER(sn_list, sn_call'.mac) = 0
    /\ i = FindBySock(sn_list, sn_call'.sock)

\* the record at place i is found under the MAC of the call after it, no
\* record was created and the others are as they were
Rekeyed(i) ==
    LET j == HASH_FIND_PEER(sn_list', sn_call'.mac)
    IN  /\ j # 0
        /\ sn_list'[j] = [sn_list[i] EXCEPT !.mac_addr = sn_call'.mac,
                                             !.hashv = sn_call'.mac]
        /\ sn_call'.peer = sn_list[i].id
        /\ Len(sn_list') = Len(sn_list)
        /\ HASH_DEL(sn_list', j) = HASH_DEL(sn_list, i)

\* C30 as stated: a record found by its socket is re-keyed only if its MAC
\* was null before the call; a record that carries another MAC keeps it,
\* and no record is created.
C30_RekeysNullOnly ==
    [][\A i \in 1..Len(sn_list) :
          FoundBySock(i)
          => IF is_null_mac(sn_list[i].mac_addr) THEN Rekeyed(i)
             ELSE sn_list' = sn_list /\ sn_call'.peer = sn_list[i].id
      ]_vars

\* C30 amended: a record found by its socket is re-keyed whatever MAC it
\* carried before the call: afterwards it is found under the MAC of the
\* call and under no other, the number of records is unchanged and no
\* record is created.
C30_RekeysAny ==
    [][\A i \in 1..Len(sn_list) :
          FoundBySock(i)
          => /\ Rekeyed(i)
             /\ ~is_null_mac(sn_list[i].mac_addr)
                => HASH_FIND_PEER(sn_list', sn_list[i].mac_addr) = 0
      ]_vars

\* a record that carried a MAC has been found by its socket and given the
\* MAC of the call
C30_Witness ==
    /\ sn_call.op = "add_sn"
    /\ sn_call.mac # null_mac
    /\ sn_call.found_by_sock
    /\ sn_call.mac_before \notin {null_mac, sn_call.mac}
    /\ HASH_FIND_PEER(sn_list, sn_call.mac) # 0
    /\ sn_list[HASH_FIND_PEER(sn_list, sn_call.mac)].id = sn_call.peer

(***************************************************************************)
(* C31..C33                                                                *)
(***************************************************************************)
\* the addresses of the records of the list
PeersOf(list) == {list[i].id : i \in 1..Len(list)}

\* the call that has just returned added one record to the list, with the
\* MAC and the socket of the call and the default selection criterion, set
\* *skip_add to SN_ADD_ADDED and returned the record
CreatedOne ==
    /\ Len(sn_list') = Len(sn_list) + 1
    /\ SubSeq(sn_list', 1, Len(sn_list)) = sn_list
    /\ LET peer == sn_list'[Len(sn_list')]
       IN  /\ peer.mac_addr = sn_call'.mac
           /\ peer.sock = sn_call'.sock
           /\ peer.selection_criterion = "default"
           /\ peer.id = sn_call'.peer
           /\ peer.id \notin PeersOf(sn_list) \cup {NullPeer}
    /\ sn_call'.skip_add_after = SN_ADD_ADDED

\* the call that has just returned left the number of records and
\* *skip_add as they were and, when nothing matched, returned NULL and left
\* the list as it was
CreatedNone ==
    /\ Len(sn_list') = Len(sn_list)
    /\ sn_call'.skip_add_after = sn_call'.skip_add
    /\ Unmatched(sn_list, sn_call'.sock, sn_call'.mac)
       => sn_call'.peer = NullPeer /\ sn_list' = sn_list

\* C31 as stated: a record is created when no record matches by MAC or by
\* socket and the mode is SN_ADD, and then exactly one; in every other case
\* the number of records and the mode are unchanged, and without a match
\* NULL is returned and the list is unchanged.
C31_CreatesOnAdd ==
    [][sn_call'.op = "add_sn"
       => IF Unmatched(sn_list, sn_call'.sock, sn_call'.mac)
             /\ sn_call'.skip_add = SN_ADD
          THEN CreatedOne
          ELSE CreatedNone
      ]_vars

\* C31 amended: a record is created when no record matches, the mode is
\* SN_ADD and peer_info_malloc returns a record, and then exactly one; in
\* every other case, peer_info_malloc returning NULL among them, the number
\* of records and the mode are unchanged, and without a match NULL is
\* returned and the list is unchanged.
C31_CreatesOnAddIfAllocated ==
    [][sn_call'.op = "add_sn"
       => IF /\ Unmatched(sn_list, sn_call'.sock, sn_call'.mac)
             /\ sn_call'.skip_add = SN_ADD
             /\ sn_call'.malloc # NullPeer
          THEN CreatedOne
          ELSE CreatedNone
      ]_vars

\* a second record has been created, by a call in the mode SN_ADD
C31_Witness ==
    /\ sn_call.op = "add_sn"
    /\ sn_call.skip_add = SN_ADD
    /\ sn_call.skip_add_after = SN_ADD_ADDED
    /\ sn_call.malloc # NullPeer
    /\ Len(sn_list) >= 2
    /\ sn_list[Len(sn_list)].id = sn_call.malloc
    /\ sn_call.peer = sn_call.malloc

\* C32: the worker never calls pthread_mutex_lock on param->access, and
\* resolve_check never calls pthread_mutex_trylock on it, before
\* pthread_mutex_init has returned.
C32_InitBeforeLock ==
    [][/\ (rs_call'.op = "pthread_mutex_lock" /\ ~rs_call'.freed)
          => param.access.init
       /\ (rs_call'.op = "resolve_check_try" /\ rs_call'.due)
          => param.access.init
      ]_vars

\* the number of calls on slot i in the calls of a sweep
CallsOn(calls, i) == Cardinality({n \in 1..Len(calls) : calls[n] = i})

\* slots_fdset_loop has just returned
SweepReturned == pc = "polled" /\ last_call'.op = "slots_fdset_loop"

\* C33: in every sweep of slots_fdset_loop conn_read is called exactly once
\* on each open slot whose fd is flagged in readers, and conn_write exactly
\* once on each open slot in CONN_SENDING whose fd is flagged in writers,
\* whatever slots_accept returned for the listeners in the same sweep.
C33_SweepServesAll ==
    [][SweepReturned
       => \A i \in SlotIds(slots) :
             LET c == slots.conn[i]
             IN  /\ (c.fd # NoFd /\ c.fd \in last_call'.readers)
                    => CallsOn(last_call'.reads, i) = 1
                 /\ (c.fd # NoFd /\ c.state = CONN_SENDING
                        /\ c.fd \in last_call'.writers)
                    => CallsOn(last_call'.writes, i) = 1
      ]_vars

=============================================================================
